---- MODULE Spec2Model ----
(***************************************************************************)
(* A model of oken, an interactive front-end for ssh: host resolution      *)
(* (hosts.rs), the interactive picker (picker.rs), the connection flow of  *)
(* main.rs and the reconnect supervisor (reconnect.rs).                    *)
(*                                                                         *)
(* Strings are sequences of one-character strings, so that substring       *)
(* search, case folding and byte-wise ordering are computed, not assumed.  *)
(* An Option<T> is a sequence of length at most one: None is << >> and     *)
(* Some(x) is <<x>>.                                                       *)
(***************************************************************************)
EXTENDS Integers, Sequences, FiniteSets, TLC

\* ------------------------------------------------------------------ bounds

\* Largest cfg.reconnect_retries drawn; a client script has MaxRetries + 1 attempts.
MaxRetries == 2

\* ------------------------------------------------------------------ strings

None == << >>
Some(x) == <<x>>
IsSome(o) == Len(o) = 1
Unwrap(o) == o[1]

\* The characters of the model with their ASCII code points (str::cmp compares
\* bytes): digits 48..57, upper case 65..90, lower case 97..122, and punctuation.
Digits == << "0", "1", "2", "3", "4", "5", "6", "7", "8", "9" >>
Upper ==
    << "A", "B", "C", "D", "E", "F", "G", "H", "I", "J", "K", "L", "M",
       "N", "O", "P", "Q", "R", "S", "T", "U", "V", "W", "X", "Y", "Z" >>
Lower ==
    << "a", "b", "c", "d", "e", "f", "g", "h", "i", "j", "k", "l", "m",
       "n", "o", "p", "q", "r", "s", "t", "u", "v", "w", "x", "y", "z" >>
Punct ==
    [c \in {"\t", " ", "#", "*", "-", ".", "/", "=", "?", "@", "~"} |->
        CASE c = "\t" -> 9 [] c = " " -> 32 [] c = "#" -> 35 [] c = "*" -> 42 [] c = "-" -> 45
          [] c = "." -> 46 [] c = "/" -> 47 [] c = "=" -> 61 [] c = "?" -> 63
          [] c = "@" -> 64 [] c = "~" -> 126]

IndexOf(seq, c) == CHOOSE i \in 1..Len(seq) : seq[i] = c
IsIn(seq, c) == \E i \in 1..Len(seq) : seq[i] = c

\* U+FFFF, the one character of the group key of an untagged host (picker.rs:51).
CharFFFF == "U+FFFF"

\* U+1F680, a character beyond U+FFFF.
Char1F680 == "U+1F680"

CharCode(c) ==
    IF c = CharFFFF THEN 65535
    ELSE IF c = Char1F680 THEN 128640
    ELSE IF IsIn(Digits, c) THEN 47 + IndexOf(Digits, c)
    ELSE IF IsIn(Upper, c) THEN 64 + IndexOf(Upper, c)
    ELSE IF IsIn(Lower, c) THEN 96 + IndexOf(Lower, c)
    ELSE Punct[c]

\* char::to_lowercase on ASCII: 'A'..'Z' map to 'a'..'z', all else is kept.
to_lowercase_char(c) ==
    IF IsIn(Upper, c) THEN Lower[IndexOf(Upper, c)] ELSE c

\* str::to_lowercase
to_lowercase(s) == [i \in 1..Len(s) |-> to_lowercase_char(s[i])]

\* str::eq_ignore_ascii_case
eq_ignore_ascii_case(a, b) == to_lowercase(a) = to_lowercase(b)

\* str::contains(&str): some window of hay equals needle (the empty needle always).
contains(hay, needle) ==
    \E i \in 0..(Len(hay) - Len(needle)) :
        \A j \in 1..Len(needle) : hay[i + j] = needle[j]

\* str::starts_with
starts_with(s, p) ==
    Len(p) <= Len(s) /\ \A j \in 1..Len(p) : s[j] = p[j]

\* Ord for str: byte-wise lexicographic, a proper prefix first. -1, 0 or 1.
str_cmp(a, b) ==
    LET differ == { i \in 1..Len(a) : i <= Len(b) /\ a[i] # b[i] }
        k == CHOOSE i \in differ : \A j \in differ : i <= j
    IN  IF differ # {}
        THEN (IF CharCode(a[k]) < CharCode(b[k]) THEN -1 ELSE 1)
        ELSE IF Len(a) < Len(b) THEN -1
        ELSE IF Len(a) > Len(b) THEN 1
        ELSE 0

\* u16/u32 Display: the decimal digits of n, no leading zero.
RECURSIVE to_string(_)
to_string(n) ==
    IF n < 10 THEN << Digits[n + 1] >>
    ELSE to_string(n \div 10) \o << Digits[(n % 10) + 1] >>

\* ------------------------------------------------------------------ hosts

SshConfig == "SshConfig"
HostsToml == "HostsToml"

Host(alias, hostname, user, port, identity_file, tags, source) ==
    [alias |-> alias, hostname |-> hostname, user |-> user, port |-> port,
     identity_file |-> identity_file, tags |-> tags, source |-> source]

\* hosts_toml.rs: HostEntry, the value stored under an alias.
HostEntry(hostname, user, port, identity_file, tags) ==
    [hostname |-> hostname, user |-> user, port |-> port,
     identity_file |-> identity_file, tags |-> tags]

\* Result<T>: Ok(v) or Err.
Ok(v) == [ok |-> TRUE, val |-> v]
Err == [ok |-> FALSE, val |-> << >>]

\* Result::unwrap_or_default for a Vec or a HashMap.
unwrap_or_default(r) == IF r.ok THEN r.val ELSE << >>

\* The elements of a sequence.
Range(seq) == {seq[i] : i \in 1..Len(seq)}

\* The least string of a non-empty set, by str::cmp.
min_str(S) == CHOOSE a \in S : \A b \in S : str_cmp(a, b) <= 0

\* Vec<String>::sort then dedup, as parse_ssh_config ends: the strings of a
\* set in ascending order.
sorted_strs(S) ==
    [i \in 1..Cardinality(S) |->
        CHOOSE a \in S : Cardinality({ b \in S : str_cmp(b, a) < 0 }) = i - 1]

\* load_hosts_toml: an absent file is an empty map; a file that cannot be read
\* or does not parse is an error.
load_hosts_toml(file) ==
    IF file.state = "missing" THEN Ok(<< >>)
    ELSE IF file.state \in {"unreadable", "malformed"} THEN Err
    ELSE Ok(file.hosts)

\* A slip of lines 35-43: the alias copied into the hostname.
ssh_config_host_named(alias) ==
    [alias |-> alias, hostname |-> Some(alias), user |-> None, port |-> None,
     identity_file |-> None, tags |-> << >>, source |-> SshConfig]

\* list_all_hosts, lines 32-45: the Host inserted for an alias of ~/.ssh/config.
ssh_config_host(alias) == Host(alias, None, None, None, None, << >>, SshConfig)

\* list_all_hosts, lines 51-64: the Host inserted for an entry of hosts.toml.
hosts_toml_host(alias, entry) ==
    Host(alias, Some(entry.hostname), entry.user, entry.port,
         entry.identity_file, entry.tags, HostsToml)

\* A slip of the overlay: HashMap::entry().or_insert, the first record wins.
overlay_first_wins(ssh_hosts, toml_hosts) ==
    [a \in Range(ssh_hosts) \cup DOMAIN toml_hosts |->
        IF a \in Range(ssh_hosts) THEN ssh_config_host(a)
        ELSE hosts_toml_host(a, toml_hosts[a])]

\* list_all_hosts, lines 28-64: hosts_map after both loops of HashMap::insert;
\* an insert under a key already present replaces the value.
overlay(ssh_hosts, toml_hosts) ==
    [a \in Range(ssh_hosts) \cup DOMAIN toml_hosts |->
        IF a \in DOMAIN toml_hosts THEN hosts_toml_host(a, toml_hosts[a])
        ELSE ssh_config_host(a)]

\* A slip of line 67: the comparison turned round.
RECURSIVE sort_by_alias_descending(_)
sort_by_alias_descending(hosts_map) ==
    IF DOMAIN hosts_map = {} THEN << >>
    ELSE LET a == CHOOSE x \in DOMAIN hosts_map :
                      \A y \in DOMAIN hosts_map : str_cmp(y, x) <= 0
         IN  << hosts_map[a] >>
                 \o sort_by_alias_descending([b \in DOMAIN hosts_map \ {a} |-> hosts_map[b]])

\* list_all_hosts, lines 66-67: the values of the map sorted by alias.
RECURSIVE sort_by_alias(_)
sort_by_alias(hosts_map) ==
    IF DOMAIN hosts_map = {} THEN << >>
    ELSE LET a == min_str(DOMAIN hosts_map)
         IN  << hosts_map[a] >>
                 \o sort_by_alias([b \in DOMAIN hosts_map \ {a} |-> hosts_map[b]])

\* list_all_hosts: parse_ssh_config().unwrap_or_default(), config_dir()? (an
\* error is returned), load_hosts_toml().unwrap_or_default(), overlay, sort.
list_all_hosts(ssh_result, config_dir_ok, toml_file) ==
    IF ~config_dir_ok THEN Err
    ELSE Ok(sort_by_alias(overlay(unwrap_or_default(ssh_result),
                                  unwrap_or_default(load_hosts_toml(toml_file)))))

\* ------------------------------------------------------------------ picker.rs

\* history::last_connected_hosts: per alias, MAX(connected_at) over the rows of
\* history.db (a TEXT column: compared as strings).
last_connected_hosts(db) ==
    [a \in {db[i].alias : i \in 1..Len(db)} |->
        LET stamps == {db[i].connected_at : i \in {j \in 1..Len(db) : db[j].alias = a}}
        IN  CHOOSE t \in stamps : \A u \in stamps : str_cmp(u, t) <= 0]

\* run_picker, lines 34-46: PickerHost, a host joined with its recency.
PickerHost(h, recent) ==
    [host |-> h,
     last_connected |-> IF h.alias \in DOMAIN recent THEN Some(recent[h.alias]) ELSE None]

\* run_picker, lines 51-52: the group key, the first tag or U+FFFF.
group_key(ph) == IF ph.host.tags # << >> THEN ph.host.tags[1] ELSE << CharFFFF >>

\* run_picker, lines 50-62: the comparator of the sort. -1, 0 or 1.
picker_cmp(a, b) ==
    LET group_cmp == str_cmp(group_key(a), group_key(b))
    IN  IF group_cmp # 0 THEN group_cmp
        ELSE IF IsSome(a.last_connected) /\ IsSome(b.last_connected)
             THEN str_cmp(Unwrap(b.last_connected), Unwrap(a.last_connected))
        ELSE IF IsSome(a.last_connected) THEN -1
        ELSE IF IsSome(b.last_connected) THEN 1
        ELSE str_cmp(a.host.alias, b.host.alias)

\* slice::sort_by is stable: x goes after the last element not greater than it.
RECURSIVE insert_sorted(_, _)
insert_sorted(sorted, x) ==
    IF sorted = << >> THEN << x >>
    ELSE IF picker_cmp(x, sorted[Len(sorted)]) >= 0 THEN Append(sorted, x)
    ELSE Append(insert_sorted(SubSeq(sorted, 1, Len(sorted) - 1), x), sorted[Len(sorted)])

RECURSIVE sort_picker_hosts(_)
sort_picker_hosts(phs) ==
    IF phs = << >> THEN << >>
    ELSE insert_sorted(sort_picker_hosts(SubSeq(phs, 1, Len(phs) - 1)), phs[Len(phs)])

\* filter_hosts without lower-casing the fields.
matches_any_field_cased(h, q) ==
    \/ contains(h.alias, q)
    \/ IsSome(h.hostname) /\ contains(Unwrap(h.hostname), q)
    \/ IsSome(h.user) /\ contains(Unwrap(h.user), q)
    \/ \E i \in 1..Len(h.tags) : contains(h.tags[i], q)

\* filter_hosts, lines 219-226: a query without '#' matches alias, hostname,
\* user or any tag, each lower-cased.
matches_any_field(h, q) ==
    \/ contains(to_lowercase(h.alias), q)
    \/ IsSome(h.hostname) /\ contains(to_lowercase(Unwrap(h.hostname)), q)
    \/ IsSome(h.user) /\ contains(to_lowercase(Unwrap(h.user)), q)
    \/ \E i \in 1..Len(h.tags) : contains(to_lowercase(h.tags[i]), q)

\* A '#' query that still consults alias, hostname and user.
matches_tag_or_field(h, tag_q) == matches_any_field(h, tag_q)

\* filter_hosts, line 209: a '#' query matches the tags alone.
matches_tag(h, tag_q) ==
    \E i \in 1..Len(h.tags) : contains(to_lowercase(h.tags[i]), tag_q)

\* filter_hosts: the indices (from 1 here) of the items a query keeps, in order.
filter_hosts(picker_hosts, query) ==
    LET q == to_lowercase(query)
        keep(i) ==
            IF query = << >> THEN TRUE
            ELSE IF starts_with(q, << "#" >>)
                 THEN matches_tag(picker_hosts[i].host, Tail(q))
            ELSE matches_any_field(picker_hosts[i].host, q)
    IN  SelectSeq([i \in 1..Len(picker_hosts) |-> i], keep)

\* run_picker_loop, lines 101-102: headers are shown when a kept item has a tag.
show_headers_of(picker_hosts, filtered) ==
    \E k \in 1..Len(filtered) : picker_hosts[filtered[k]].host.tags # << >>

\* Vec::first().cloned(): the group a render row belongs to.
first_tag(h) == IF h.tags # << >> THEN Some(h.tags[1]) ELSE None

\* render_row_of, lines 182-194: the loop from item i (from 0) on, with the row
\* counter and last_group (an Option of the Option above) so far.
RECURSIVE render_row_from(_, _, _, _, _, _, _)
render_row_from(picker_hosts, filtered, selected, show_headers, i, row, last_group) ==
    IF i >= Len(filtered) THEN row
    ELSE LET group == first_tag(picker_hosts[filtered[i + 1]].host)
             header == show_headers /\ last_group # Some(group)
             row1 == IF header THEN row + 1 ELSE row
             last1 == IF header THEN Some(group) ELSE last_group
         IN  IF i = selected THEN row1
             ELSE render_row_from(picker_hosts, filtered, selected, show_headers,
                                  i + 1, row1 + 1, last1)

\* render_row_of: the render row (from 0, headers counted) of the selected item.
render_row_of(picker_hosts, filtered, selected, show_headers) ==
    render_row_from(picker_hosts, filtered, selected, show_headers, 0, 0, None)

\* usize::saturating_sub
saturating_sub(a, b) == IF a >= b THEN a - b ELSE 0

\* draw_host_list, lines 277-327: the loop from item i (from 0) on. A header row
\* is pushed when the group changes, then the row of the item; the selected
\* item has the prefix "> " and the highlight.
RECURSIVE host_list_items_from(_, _, _, _, _, _)
host_list_items_from(picker_hosts, filtered, selected, show_headers, i, last_group) ==
    IF i >= Len(filtered) THEN << >>
    ELSE LET h == picker_hosts[filtered[i + 1]].host
             group == first_tag(h)
             header == show_headers /\ last_group # Some(group)
             last1 == IF header THEN Some(group) ELSE last_group
             label == [kind |-> "header", text |-> IF IsSome(group) THEN Unwrap(group) ELSE << "o", "t", "h", "e", "r" >>]
             item == [kind |-> "item", text |-> h.alias,
                      prefix |-> IF i = selected THEN "> " ELSE "  ",
                      highlighted |-> (i = selected)]
         IN  (IF header THEN << label, item >> ELSE << item >>)
             \o host_list_items_from(picker_hosts, filtered, selected, show_headers,
                                     i + 1, last1)

\* Iterator::skip(n).take(m) on a vector.
skip_take(items, n, m) ==
    SubSeq(items, n + 1, IF n + m <= Len(items) THEN n + m ELSE Len(items))

\* A slip of line 331: the window taken from the first row whatever the offset.
draw_host_list_unscrolled(picker_hosts, filtered, selected, scroll_offset, area_height) ==
    IF filtered = << >>
    THEN [items |-> << >>, visible |-> << [kind |-> "message", text |-> "No matches"] >>]
    ELSE LET items == host_list_items_from(picker_hosts, filtered, selected,
                          show_headers_of(picker_hosts, filtered), 0, None)
         IN  [items |-> items,
              visible |-> skip_take(items, 0, saturating_sub(area_height, 1))]

\* draw_host_list: the rows built for the kept items and, of them, the rows
\* handed to the list widget: those from scroll_offset on that fit in the area
\* under its top border.
draw_host_list(picker_hosts, filtered, selected, scroll_offset, area_height) ==
    IF filtered = << >>
    THEN [items |-> << >>, visible |-> << [kind |-> "message", text |-> "No matches"] >>]
    ELSE LET items == host_list_items_from(picker_hosts, filtered, selected,
                          show_headers_of(picker_hosts, filtered), 0, None)
         IN  [items |-> items,
              visible |-> skip_take(items, scroll_offset, saturating_sub(area_height, 1))]

\* run_picker_loop, lines 97-99: the selection clamped to the kept items.
clamp_selected(selected, matched) ==
    IF selected >= matched /\ matched > 0 THEN matched - 1 ELSE selected

\* A slip of lines 111-115: the selection put on the first row past the window.
scroll_to_off_by_one(scroll_offset, selected_render_row, visible_rows) ==
    IF selected_render_row < scroll_offset THEN selected_render_row
    ELSE IF selected_render_row >= scroll_offset + visible_rows /\ visible_rows > 0
         THEN selected_render_row - visible_rows
    ELSE scroll_offset

\* A slip of lines 111-115: the offset follows the selection at every redraw.
scroll_to_eager(scroll_offset, selected_render_row, visible_rows) ==
    IF selected_render_row < scroll_offset THEN selected_render_row
    ELSE IF visible_rows > 0 /\ selected_render_row >= scroll_offset + visible_rows
         THEN selected_render_row + 1 - visible_rows
    ELSE IF visible_rows > 0 /\ selected_render_row > scroll_offset
         THEN scroll_offset + 1
    ELSE scroll_offset

\* run_picker_loop, lines 111-115: the scroll offset that keeps the row in view.
scroll_to(scroll_offset, selected_render_row, visible_rows) ==
    IF selected_render_row < scroll_offset THEN selected_render_row
    ELSE IF visible_rows > 0 /\ selected_render_row >= scroll_offset + visible_rows
         THEN selected_render_row + 1 - visible_rows
    ELSE scroll_offset

\* ------------------------------------------------------------------ ssh.rs

\* FLAGS_WITH_VALUES: the client's flags that take the next token as a value.
FLAGS_WITH_VALUES ==
    { << "-", c >> : c \in {"p", "i", "o", "l", "L", "R", "D", "F", "J", "W", "b", "c",
                            "m", "e", "S", "E", "B", "w", "O"} }

\* str::split_once('@'), its second half: what follows the first '@'.
RECURSIVE after_first_at(_)
after_first_at(tok) ==
    IF tok = << >> THEN << >>
    ELSE IF tok[1] = "@" THEN Tail(tok)
    ELSE after_first_at(Tail(tok))

\* extract_target_host, lines 74-78: the host part of the positional token.
strip_user(tok) == IF IsIn(tok, "@") THEN after_first_at(tok) ELSE tok

\* A slip of the scan: a value-consuming flag skipped like any other flag, its
\* value left in the scan.
RECURSIVE scan_target_values_kept(_, _)
scan_target_values_kept(args, skip_next) ==
    IF args = << >> THEN None
    ELSE IF starts_with(args[1], << "-" >>) THEN scan_target_values_kept(Tail(args), FALSE)
    ELSE Some(args[1])

\* The loop both extract_target_host and extract_target_host_full run: the
\* first token that is not skipped, with skip_next as it stands.
RECURSIVE scan_target(_, _)
scan_target(args, skip_next) ==
    IF args = << >> THEN None
    ELSE IF skip_next THEN scan_target(Tail(args), FALSE)
    ELSE IF args[1] \in FLAGS_WITH_VALUES THEN scan_target(Tail(args), TRUE)
    ELSE IF starts_with(args[1], << "-" >>) THEN scan_target(Tail(args), FALSE)
    ELSE Some(args[1])

\* extract_target_host_full: the positional token as it is.
extract_target_host_full(args) == scan_target(args, FALSE)

\* extract_target_host: the positional token without its user part.
extract_target_host(args) ==
    LET tok == scan_target(args, FALSE)
    IN  IF IsSome(tok) THEN Some(strip_user(Unwrap(tok))) ELSE None

\* The value of a string of decimal digits.
RECURSIVE digits_value(_)
digits_value(str) ==
    IF str = << >> THEN 0
    ELSE 10 * digits_value(SubSeq(str, 1, Len(str) - 1)) + (IndexOf(Digits, str[Len(str)]) - 1)

\* A slip of the port's type: parsed into a type wide enough for every number
\* of the tokens here.
parse_wide(str) ==
    LET body == IF str # << >> /\ str[1] = "+" THEN Tail(str) ELSE str
    IN  IF body = << >> \/ \E i \in 1..Len(body) : ~IsIn(Digits, body[i]) THEN None
        ELSE Some(digits_value(body))

\* str::parse::<u16>().ok(): decimal digits after an optional '+', at most
\* 65535; anything else is no value.
parse_u16(str) ==
    LET body == IF str # << >> /\ str[1] = "+" THEN Tail(str) ELSE str
    IN  IF body = << >> \/ \E i \in 1..Len(body) : ~IsIn(Digits, body[i]) THEN None
        ELSE IF digits_value(body) > 65535 THEN None
        ELSE Some(digits_value(body))

\* iter.next() after the first token equal to flag: the next token, if any.
RECURSIVE value_after(_, _)
value_after(args, flag) ==
    IF args = << >> THEN None
    ELSE IF args[1] = flag
         THEN IF Len(args) >= 2 THEN Some(args[2]) ELSE None
    ELSE value_after(Tail(args), flag)

\* extract_port: the token after the first -p, parsed as a u16.
extract_port(args) ==
    LET v == value_after(args, << "-", "p" >>)
    IN  IF IsSome(v) THEN parse_u16(Unwrap(v)) ELSE None

\* extract_identity_file: the token after the first -i.
extract_identity_file(args) == value_after(args, << "-", "i" >>)

\* ------------------------------------------------------------------ main.rs

\* The flags and options main.rs writes into an argument vector.
S_o == << "-", "o" >>
S_p == << "-", "p" >>
S_i == << "-", "i" >>
S_ServerAliveInterval ==
    << "S", "e", "r", "v", "e", "r", "A", "l", "i", "v", "e",
       "I", "n", "t", "e", "r", "v", "a", "l" >>
S_ServerAliveCountMax3 ==
    << "S", "e", "r", "v", "e", "r", "A", "l", "i", "v", "e",
       "C", "o", "u", "n", "t", "M", "a", "x", "=", "3" >>

\* oken_config.rs: the defaults of OkenConfig.
S_prod == << "p", "r", "o", "d" >>
S_production == << "p", "r", "o", "d", "u", "c", "t", "i", "o", "n" >>
default_keepalive == 60
default_danger_tags == << S_prod, S_production >>

\* build_ssh_args: the target, then -p <port>, then -i <identity>.
build_ssh_args(h) ==
    LET target ==
            IF IsSome(h.user) /\ IsSome(h.hostname)
            THEN Unwrap(h.user) \o << "@" >> \o Unwrap(h.hostname)
            ELSE IF h.user = None /\ IsSome(h.hostname) THEN Unwrap(h.hostname)
            ELSE h.alias
        port == IF IsSome(h.port) THEN << S_p, to_string(Unwrap(h.port)) >> ELSE << >>
        identity ==
            IF IsSome(h.identity_file) THEN << S_i, Unwrap(h.identity_file) >> ELSE << >>
    IN  << target >> \o port \o identity

\* Slips of inject_keepalive: the pairs prepended whatever the vector holds,
\* and the two options prepended without their -o.
inject_keepalive_always(args, interval) ==
    << S_o, S_ServerAliveInterval \o << "=" >> \o to_string(interval),
       S_o, S_ServerAliveCountMax3 >> \o args
inject_keepalive_bare(args, interval) ==
    IF \E i \in 1..Len(args) : contains(args[i], S_ServerAliveInterval) THEN args
    ELSE << S_ServerAliveInterval \o << "=" >> \o to_string(interval),
            S_ServerAliveCountMax3 >> \o args

\* inject_keepalive: prepend the two -o pairs unless some token already
\* contains "ServerAliveInterval".
inject_keepalive(args, interval) ==
    LET already_set == \E i \in 1..Len(args) : contains(args[i], S_ServerAliveInterval)
    IN  IF ~already_set
        THEN << S_o, S_ServerAliveInterval \o << "=" >> \o to_string(interval),
                S_o, S_ServerAliveCountMax3 >> \o args
        ELSE args

\* str::trim, over the two white-space characters a typed line can hold.
IsSpace(c) == c \in {" ", "\t", "\n"}
RECURSIVE trim_start(_)
trim_start(s) ==
    IF s # << >> /\ IsSpace(s[1]) THEN trim_start(Tail(s)) ELSE s
RECURSIVE trim_end(_)
trim_end(s) ==
    IF s # << >> /\ IsSpace(s[Len(s)]) THEN trim_end(SubSeq(s, 1, Len(s) - 1)) ELSE s
trim(s) == trim_end(trim_start(s))

\* maybe_prod_warning, lines 186-194: the host's tags that equal a danger tag,
\* ignoring ASCII case, in the host's order.
danger_matches(h, danger_tags) ==
    SelectSeq(h.tags,
        LAMBDA t : \E i \in 1..Len(danger_tags) : eq_ignore_ascii_case(danger_tags[i], t))

\* maybe_prod_warning: whether a prompt is shown at all.
prod_warning_shown(h, yes_flag, danger_tags) ==
    ~yes_flag /\ danger_matches(h, danger_tags) # << >>

\* maybe_prod_warning with the prompt read as [Y/n]: only n or no declines.
maybe_prod_warning_default_yes(h, yes_flag, danger_tags, line) ==
    IF yes_flag THEN TRUE
    ELSE IF danger_matches(h, danger_tags) = << >> THEN TRUE
    ELSE ~(\/ eq_ignore_ascii_case(trim(line), << "n" >>)
           \/ eq_ignore_ascii_case(trim(line), << "n", "o" >>))

\* maybe_prod_warning: true without a prompt under --yes or without a danger
\* tag; otherwise whether the line read from stdin trims to y or yes.
maybe_prod_warning(h, yes_flag, danger_tags, line) ==
    IF yes_flag THEN TRUE
    ELSE IF danger_matches(h, danger_tags) = << >> THEN TRUE
    ELSE \/ eq_ignore_ascii_case(trim(line), << "y" >>)
         \/ eq_ignore_ascii_case(trim(line), << "y", "e", "s" >>)

\* ------------------------------------------------------------------ state

VARIABLES
    pc,            \* where the program is
    exit_status,   \* Option: the status the process exited with
    exit_by,       \* which exit ended the process
    stderr,        \* what was written to the error stream, in order
    history_db,    \* history.db: the aliases recorded, in order
    audit,         \* audit.log: the sessions logged, in order
    host,          \* connect_to_host: the host connected to
    yes,           \* --yes
    no_reconnect,  \* --no-reconnect
    stdin,         \* maybe_prod_warning: the line read at the prompt, if one was
    cfg,           \* OkenConfig
    ssh_args,      \* the argument vector handed to the client
    target,        \* connect_to_host: the first built argument
    mode,          \* run_ssh: "direct" (ssh::run) or "reconnect"
    client,        \* the client: its outcome at each attempt
    attempt,       \* run_with_reconnect: retries used
    spawned,       \* the argument vector of every client process started
    delays,        \* run_with_reconnect: sleeps completed
    running,       \* client processes alive
    ssh_hosts,     \* what parse_ssh_config returns for ~/.ssh/config
    hosts_toml,    \* the hosts.toml file: its state and the map it holds
    all_hosts,     \* the Result of the last call of list_all_hosts
    invocation,    \* the command line
    initial_filter,\* run_picker: the Option it is called with
    picker_hosts,  \* run_picker: the sorted items
    search,        \* run_picker: the query
    selected,      \* run_picker: the selected index, from 0
    scroll_offset, \* run_picker_loop: the first render row shown
    term_height,   \* run_picker_loop: the terminal height read at the last redraw
    raw_mode,      \* the terminal is in raw mode
    alt_screen,    \* the terminal shows the alternate screen
    loop_result,   \* what run_picker_loop returned
    picker_result, \* what run_picker returned
    fn_input,      \* the arguments a function is called with on its own
    fn_output      \* what its calls returned

procVars == << pc, exit_status, exit_by, stderr, history_db, audit >>
connVars ==
    << host, yes, no_reconnect, stdin, cfg, ssh_args, target, mode, client,
       attempt, spawned, delays, running >>
resVars == << ssh_hosts, hosts_toml, all_hosts >>
pickVars ==
    << invocation, initial_filter, picker_hosts, search, selected, scroll_offset,
       term_height, raw_mode, alt_screen, loop_result, picker_result >>
fnVars == << fn_input, fn_output >>
vars == << procVars, connVars, resVars, pickVars, fnVars >>

\* No function is called on its own.
FnIdle == fn_input = << >> /\ fn_output = << >>

\* Result<Host> of the picker: Ok(host) or Err(e); NoResult before it returns.
PickOk(h) == [ok |-> TRUE, host |-> Some(h), err |-> ""]
PickErr(e) == [ok |-> FALSE, host |-> None, err |-> e]
NoResult == [ok |-> FALSE, host |-> None, err |-> ""]

\* The command line: which of main's branches it takes, its argument, the
\* flags --yes and --no-reconnect. NoInvocation where main is not run.
Invocation(kind, arg, yes_flag, no_reconnect_flag) ==
    [kind |-> kind, arg |-> arg, yes |-> yes_flag, no_reconnect |-> no_reconnect_flag]
NoInvocation == Invocation("none", << >>, FALSE, FALSE)

\* The picker's state outside run_picker: no items, no query, the terminal as
\* the shell left it.
PickerIdle ==
    /\ initial_filter = None
    /\ picker_hosts = << >>
    /\ search = << >>
    /\ selected = 0
    /\ scroll_offset = 0
    /\ term_height = 0
    /\ raw_mode = FALSE
    /\ alt_screen = FALSE
    /\ loop_result = NoResult
    /\ picker_result = NoResult

\* std::process::exit(code), or main returning: the process ends with a status.
Exit(code, by) ==
    /\ pc' = "exited"
    /\ exit_status' = Some(code)
    /\ exit_by' = by

\* main returns Err(e): Rust prints "Error: {e}" on stderr and exits with 1.
MainErr(what) ==
    /\ Exit(1, "main_err")
    /\ stderr' = Append(stderr, what)

\* ------------------------------------------------------------------ the client

\* What one client process can do: exit with a code, die from a signal (no exit
\* code), or fail to start at all.
ExitCodes == {0, 1, 255}
Outcomes ==
    [kind : {"exit"}, code : ExitCodes]
        \cup {[kind |-> "signal", code |-> 0], [kind |-> "spawn_err", code |-> 0]}
Scripts == [1..(MaxRetries + 1) -> Outcomes]

\* ExitStatus::code(): None for a process ended by a signal.
status_code(o) == IF o.kind = "exit" THEN Some(o.code) ELSE None

\* Option::unwrap_or
unwrap_or(o, d) == IF IsSome(o) THEN Unwrap(o) ELSE d

\* ------------------------------------------------------------------ connect_to_host

\* What read_line can yield at the prompt (the empty line is end of input).
StdinLines ==
    { << "y", "\n" >>, << "Y", "E", "S", "\n" >>, << " ", "y", " ", "\n" >>,
      << "n", "\n" >>, << "y", "e", "\n" >>, << "\n" >>, << >> }

\* The values of strftime('%Y-%m-%dT%H:%M:%SZ', 'now') told apart here.
Timestamps == { << "1" >>, << "2" >> }

\* history::record_connection: one row more, stamped by the column's default.
record_connection(db, alias, now) ==
    Append(db, [alias |-> alias, connected_at |-> now])

\* connect_to_host up to the call of run_ssh: the prod warning, the argument
\* vector, the history record (record_host drops a failure to write it).
connect_to_host ==
    /\ pc = "connect_to_host"
    /\ UNCHANGED fnVars
    /\ \E line \in StdinLines :
        /\ (~prod_warning_shown(host, yes, cfg.danger_tags) => line = << >>)
        /\ stderr' = IF prod_warning_shown(host, yes, cfg.danger_tags)
                     THEN Append(stderr, "prod_warning") ELSE stderr
        /\ stdin' = IF prod_warning_shown(host, yes, cfg.danger_tags) THEN Some(line) ELSE stdin
        /\ IF ~maybe_prod_warning(host, yes, cfg.danger_tags, line)
           THEN /\ Exit(0, "main_ok")
                /\ UNCHANGED << history_db, ssh_args, target >>
           ELSE /\ ssh_args' = inject_keepalive(build_ssh_args(host), cfg.keepalive_interval)
                /\ target' = build_ssh_args(host)[1]
                /\ \E now \in Timestamps :
                       history_db' \in {record_connection(history_db, host.alias, now),
                                        history_db}
                /\ pc' = "run_ssh"
                /\ UNCHANGED << exit_status, exit_by >>
    /\ UNCHANGED << audit, host, yes, no_reconnect, cfg, mode, client,
                    attempt, spawned, delays, running >>
    /\ UNCHANGED << resVars, pickVars >>

\* run_ssh: ssh::run unless reconnect is enabled. Both begin with find_ssh,
\* whose failure is returned up to main.
run_ssh ==
    /\ pc = "run_ssh"
    /\ UNCHANGED fnVars
    /\ mode' = IF no_reconnect \/ ~cfg.reconnect THEN "direct" ELSE "reconnect"
    /\ \E found \in BOOLEAN :
        IF found
        THEN /\ pc' = IF mode' = "direct" THEN "ssh_run" ELSE "reconnect_loop"
             /\ UNCHANGED << exit_status, exit_by, stderr >>
        ELSE MainErr("could not find ssh binary on PATH")
    /\ attempt' = 0
    /\ UNCHANGED << history_db, audit, host, yes, no_reconnect, stdin, cfg, ssh_args,
                    target, client, spawned, delays, running >>
    /\ UNCHANGED << resVars, pickVars >>

\* ------------------------------------------------------------------ reconnect.rs

\* Variants of should_retry that a slip in line 24 would produce: one retry
\* short, and a retry on every failing exit code.
should_retry_one_short(code, attempts_used, max_retries) ==
    code = 255 /\ attempts_used + 1 < max_retries
should_retry_any_failure(code, attempts_used, max_retries) ==
    code # 0 /\ attempts_used < max_retries

\* run_with_reconnect, line 24: retry on 255 while retries are left.
should_retry(code, attempts_used, max_retries) ==
    code = 255 /\ attempts_used < max_retries

\* run_with_reconnect, lines 15-20: Command::status() starts the client with the
\* argument vector; a failure to start is returned as an error.
run_with_reconnect_spawn ==
    /\ pc = "reconnect_loop"
    /\ UNCHANGED fnVars
    /\ IF client[Len(spawned) + 1].kind = "spawn_err"
       THEN /\ MainErr("spawn failed")
            /\ UNCHANGED << spawned, running >>
       ELSE /\ spawned' = Append(spawned, ssh_args)
            /\ running' = running + 1
            /\ pc' = "reconnect_wait"
            /\ UNCHANGED << exit_status, exit_by, stderr >>
    /\ UNCHANGED << history_db, audit, host, yes, no_reconnect, stdin, cfg, ssh_args,
                    target, mode, client, attempt, delays >>
    /\ UNCHANGED << resVars, pickVars >>

\* run_with_reconnect, lines 22-33: the client has ended; retry or exit with
\* its code.
run_with_reconnect_status ==
    /\ pc = "reconnect_wait"
    /\ UNCHANGED fnVars
    /\ running' = running - 1
    /\ LET code == unwrap_or(status_code(client[Len(spawned)]), 1)
       IN  IF should_retry(code, attempt, cfg.reconnect_retries)
           THEN /\ attempt' = attempt + 1
                /\ stderr' = Append(stderr, "Connection lost. Reconnecting")
                /\ pc' = "reconnect_sleep"
                /\ UNCHANGED << exit_status, exit_by >>
           ELSE /\ Exit(code, "run_with_reconnect")
                /\ UNCHANGED << attempt, stderr >>
    /\ UNCHANGED << history_db, audit, host, yes, no_reconnect, stdin, cfg, ssh_args,
                    target, mode, client, spawned, delays >>
    /\ UNCHANGED << resVars, pickVars >>

\* run_with_reconnect without line 29: the loop goes on at once, no delay slept.
run_with_reconnect_sleep_skipped ==
    /\ pc = "reconnect_sleep"
    /\ UNCHANGED fnVars
    /\ pc' = "reconnect_loop"
    /\ UNCHANGED << exit_status, exit_by, stderr, history_db, audit, host, yes,
                    no_reconnect, stdin, cfg, ssh_args, target, mode, client, attempt,
                    spawned, delays, running >>
    /\ UNCHANGED << resVars, pickVars >>

\* run_with_reconnect, line 29: thread::sleep(delay), then the loop again.
run_with_reconnect_sleep ==
    /\ pc = "reconnect_sleep"
    /\ UNCHANGED fnVars
    /\ delays' = delays + 1
    /\ pc' = "reconnect_loop"
    /\ UNCHANGED << exit_status, exit_by, stderr, history_db, audit, host, yes,
                    no_reconnect, stdin, cfg, ssh_args, target, mode, client, attempt,
                    spawned, running >>
    /\ UNCHANGED << resVars, pickVars >>

\* ------------------------------------------------------------------ ssh::run

\* ssh::run is called by run_ssh and is not among the sources: one client
\* process, run to completion, its exit code returned (section 4.5).
ssh_run_spawn ==
    /\ pc = "ssh_run"
    /\ UNCHANGED fnVars
    /\ IF client[Len(spawned) + 1].kind = "spawn_err"
       THEN /\ MainErr("spawn failed")
            /\ UNCHANGED << spawned, running >>
       ELSE /\ spawned' = Append(spawned, ssh_args)
            /\ running' = running + 1
            /\ pc' = "ssh_wait"
            /\ UNCHANGED << exit_status, exit_by, stderr >>
    /\ UNCHANGED << history_db, audit, host, yes, no_reconnect, stdin, cfg, ssh_args,
                    target, mode, client, attempt, delays >>
    /\ UNCHANGED << resVars, pickVars >>

\* audit::log_session: one line more in audit.log.
log_session(log, alias, tgt, exit_code) ==
    Append(log, [alias |-> alias, target |-> tgt, exit_code |-> exit_code])

\* connect_to_host, lines 117-119, once ssh::run has returned the exit code:
\* the session is logged (log_session drops a failure to write) and the
\* process exits with the code.
connect_to_host_done ==
    /\ pc = "ssh_wait"
    /\ UNCHANGED fnVars
    /\ running' = running - 1
    /\ LET exit_code == unwrap_or(status_code(client[Len(spawned)]), 1)
       IN  /\ audit' \in {log_session(audit, host.alias, target, exit_code), audit}
           /\ Exit(exit_code, "connect_to_host")
    /\ UNCHANGED << stderr, history_db, host, yes, no_reconnect, stdin, cfg, ssh_args,
                    target, mode, client, attempt, spawned, delays >>
    /\ UNCHANGED << resVars, pickVars >>

\* ------------------------------------------------------------------ SpecReconnect

\* The hosts connect_to_host is called with: one known only from ~/.ssh/config
\* and one of hosts.toml that carries a danger tag.
S_web == << "w", "e", "b" >>
S_db == << "d", "b" >>
ConnectToml ==
    [a \in {S_db} |->
        HostEntry(<< "h" >>, Some(<< "u" >>), Some(22), None,
                  << << "P", "r", "o", "d" >> >>)]
ConnectHosts == Range(list_all_hosts(Ok(<< S_web >>), TRUE, [state |-> "ok", hosts |-> ConnectToml]).val)

InitReconnect ==
    /\ pc = "connect_to_host"
    /\ exit_status = None
    /\ exit_by = ""
    /\ stderr = << >>
    /\ history_db = << >>
    /\ audit = << >>
    /\ host \in ConnectHosts
    /\ yes \in BOOLEAN
    /\ no_reconnect \in BOOLEAN
    /\ stdin = None
    /\ cfg \in [reconnect : BOOLEAN, reconnect_retries : 0..MaxRetries,
                keepalive_interval : {default_keepalive},
                danger_tags : {default_danger_tags}]
    /\ ssh_args = << >>
    /\ target = << >>
    /\ mode = ""
    /\ client \in Scripts
    /\ attempt = 0
    /\ spawned = << >>
    /\ delays = 0
    /\ running = 0
    /\ ssh_hosts = Ok(<< S_web >>)
    /\ hosts_toml = [state |-> "ok", hosts |-> ConnectToml]
    /\ all_hosts = list_all_hosts(ssh_hosts, TRUE, hosts_toml)
    /\ invocation = NoInvocation
    /\ PickerIdle
    /\ FnIdle

NextReconnect ==
    \/ connect_to_host
    \/ run_ssh
    \/ run_with_reconnect_spawn
    \/ run_with_reconnect_status
    \/ run_with_reconnect_sleep
    \/ ssh_run_spawn
    \/ connect_to_host_done

SpecReconnect == InitReconnect /\ [][NextReconnect]_vars

\* ------------------------------------------------------------------ C1, C2

Exited(c) == [kind |-> "exit", code |-> c]

\* The client exits with 255 exactly k times and then with 0.
IsKScript(k) ==
    /\ k + 1 <= Len(client)
    /\ \A i \in 1..k : client[i] = Exited(255)
    /\ client[k + 1] = Exited(0)

\* C1: under run_with_reconnect, for a client that exits with 255 exactly k
\* times and then with 0: every client process is started with the same argument
\* vector and, while one runs, as many delays have been slept as retries were
\* made, one per retry; with max_retries >= k the process ends with status 0
\* after exactly k retries (k delays, k + 1 attempts), with max_retries < k it
\* ends with status 255 after exactly max_retries retries (max_retries + 1 attempts).
C1_ReconnectRetries ==
    \A k \in 0..MaxRetries :
        (IsKScript(k) /\ mode = "reconnect" /\ spawned # << >>) =>
            LET n == cfg.reconnect_retries IN
            /\ \A i \in 1..Len(spawned) : spawned[i] = ssh_args
            /\ pc = "reconnect_wait" => (delays = attempt /\ Len(spawned) = attempt + 1)
            /\ pc = "reconnect_sleep" => (delays + 1 = attempt /\ Len(spawned) = attempt)
            /\ pc = "reconnect_loop" => (delays = attempt /\ Len(spawned) = attempt)
            /\ pc \in {"reconnect_wait", "reconnect_sleep", "reconnect_loop", "exited"}
            /\ pc = "exited" =>
                /\ exit_by = "run_with_reconnect"
                /\ n >= k => /\ exit_status = Some(0)
                             /\ attempt = k /\ delays = k /\ Len(spawned) = k + 1
                /\ n < k => /\ exit_status = Some(255)
                            /\ attempt = n /\ delays = n /\ Len(spawned) = n + 1

\* C1 witness: a client lost twice and then successful has been retried twice
\* and the process has ended with status 0.
C1_Witness ==
    /\ pc = "exited" /\ mode = "reconnect" /\ IsKScript(2)
    /\ cfg.reconnect_retries = 2 /\ attempt = 2 /\ delays = 2
    /\ exit_status = Some(0)

\* C1, the other case reached: retries exhausted, the process ended with 255.
C1_WitnessExhausted ==
    /\ pc = "exited" /\ mode = "reconnect" /\ IsKScript(2)
    /\ cfg.reconnect_retries = 1 /\ attempt = 1 /\ Len(spawned) = 2
    /\ exit_status = Some(255)

\* C2: under run_with_reconnect, once an attempt has exited with a code other
\* than 255, or with 255 when the retries used before it equal max_retries, no
\* further client process is started and the process has exited with exactly
\* that code. (The attempt numbered i runs with i - 1 retries used.)
C2_ExitCodePreserved ==
    mode = "reconnect" =>
        \A i \in 1..Len(spawned) :
            LET o == client[i]
                ended == i < Len(spawned) \/ pc # "reconnect_wait"
            IN  (/\ ended
                 /\ o.kind = "exit"
                 /\ (o.code # 255 \/ i - 1 = cfg.reconnect_retries)) =>
                    /\ i = Len(spawned)
                    /\ running = 0
                    /\ pc = "exited"
                    /\ exit_by = "run_with_reconnect"
                    /\ exit_status = Some(o.code)

\* C2 witness: the client failed with code 1 on the retry after a lost
\* connection, and the process has exited with 1.
C2_Witness ==
    /\ pc = "exited" /\ mode = "reconnect"
    /\ Len(spawned) = 2 /\ client[1] = Exited(255) /\ client[2] = Exited(1)
    /\ exit_status = Some(1)

\* C2, the other case reached: 255 on the last permitted attempt is the status.
C2_WitnessLost ==
    /\ pc = "exited" /\ mode = "reconnect"
    /\ cfg.reconnect_retries = 1 /\ attempt = 1
    /\ client[2] = Exited(255) /\ exit_status = Some(255)

\* ------------------------------------------------------------------ SpecHosts

\* The aliases ~/.ssh/config can declare and those hosts.toml can hold; two are
\* in both, and "B" sorts before "a" byte-wise.
SshUniverse == { << "a" >>, << "a", "b" >>, << "B" >> }
StoreUniverse == { << "a", "b" >>, << "B" >>, << "c" >> }
StoreEntries ==
    { HostEntry(<< "h" >>, None, None, None, << >>),
      HostEntry(<< "p", "h" >>, Some(<< "u" >>), Some(22), Some(<< "k" >>),
                << << "P" >> >>),
      HostEntry(<< "x" >>, None, Some(2222), None, << << "d", "b" >>, << "p" >> >>) }

\* What parse_ssh_config can return: sorted, without duplicates.
SshResults(universe) == { Ok(sorted_strs(S)) : S \in SUBSET universe }

\* The states of hosts.toml.
TomlFiles(universe, entries) ==
    { [state |-> st, hosts |-> << >>] : st \in {"missing", "unreadable", "malformed"} }
        \cup { [state |-> "ok", hosts |-> m] :
                 m \in UNION { [S -> entries] : S \in SUBSET universe } }

\* A call of list_all_hosts; config_dir() can fail to create the directory.
call_list_all_hosts ==
    /\ pc = "list_all_hosts"
    /\ UNCHANGED fnVars
    /\ \E config_dir_ok \in BOOLEAN :
        all_hosts' = list_all_hosts(ssh_hosts, config_dir_ok, hosts_toml)
    /\ pc' = "resolved"
    /\ UNCHANGED << exit_status, exit_by, stderr, history_db, audit,
                    ssh_hosts, hosts_toml >>
    /\ UNCHANGED << connVars, pickVars >>

InitHosts ==
    /\ pc = "list_all_hosts"
    /\ exit_status = None
    /\ exit_by = ""
    /\ stderr = << >>
    /\ history_db = << >>
    /\ audit = << >>
    /\ host = << >>
    /\ yes = FALSE
    /\ no_reconnect = FALSE
    /\ stdin = None
    /\ cfg = [reconnect |-> TRUE, reconnect_retries |-> MaxRetries,
              keepalive_interval |-> default_keepalive,
              danger_tags |-> default_danger_tags]
    /\ ssh_args = << >>
    /\ target = << >>
    /\ mode = ""
    /\ client = << >>
    /\ attempt = 0
    /\ spawned = << >>
    /\ delays = 0
    /\ running = 0
    /\ ssh_hosts \in SshResults(SshUniverse)
    /\ hosts_toml \in TomlFiles(StoreUniverse, StoreEntries)
    /\ all_hosts = Ok(<< >>)
    /\ invocation = NoInvocation
    /\ PickerIdle
    /\ FnIdle

NextHosts == call_list_all_hosts

SpecHosts == InitHosts /\ [][NextHosts]_vars

\* ------------------------------------------------------------------ C10

\* The aliases both sources hold: declared in ~/.ssh/config and a key of a
\* hosts.toml that loads.
InBoth ==
    Range(unwrap_or_default(ssh_hosts))
        \cap DOMAIN unwrap_or_default(load_hosts_toml(hosts_toml))

\* C10: in what list_all_hosts returns, an alias held by both sources has
\* exactly one host, of source HostsToml, whose hostname, user, port, identity
\* file and tags are those of the hosts.toml entry.
C10_StoreWins ==
    (pc = "resolved" /\ all_hosts.ok) =>
        \A a \in InBoth :
            LET e == hosts_toml.hosts[a]
                at == { i \in 1..Len(all_hosts.val) : all_hosts.val[i].alias = a }
            IN  /\ Cardinality(at) = 1
                /\ \A i \in at :
                    /\ all_hosts.val[i].source = HostsToml
                    /\ all_hosts.val[i].hostname = Some(e.hostname)
                    /\ all_hosts.val[i].user = e.user
                    /\ all_hosts.val[i].port = e.port
                    /\ all_hosts.val[i].identity_file = e.identity_file
                    /\ all_hosts.val[i].tags = e.tags

\* C10 witness: list_all_hosts has returned with two aliases held by both
\* sources, one of them stored with user, port, identity file and a tag.
C10_Witness ==
    /\ pc = "resolved" /\ all_hosts.ok
    /\ Cardinality(InBoth) = 2
    /\ \E a \in InBoth : hosts_toml.hosts[a].port = Some(22)

\* ------------------------------------------------------------------ C11 .. C13

\* The aliases each source contributes: those parse_ssh_config returned, and
\* the keys of a hosts.toml that loads.
ConfigAliases == Range(unwrap_or_default(ssh_hosts))
StoreAliases == DOMAIN unwrap_or_default(load_hosts_toml(hosts_toml))

\* The hosts list_all_hosts returned under an alias.
Resolved(a) ==
    { all_hosts.val[i] : i \in { j \in 1..Len(all_hosts.val) : all_hosts.val[j].alias = a } }

\* C11: in what list_all_hosts returns, an alias that only ~/.ssh/config
\* declares has one host, of source SshConfig, with hostname, user, port and
\* identity file unset and no tag.
C11_ConfigOnlyHost ==
    (pc = "resolved" /\ all_hosts.ok) =>
        \A a \in ConfigAliases \ StoreAliases :
            /\ Cardinality(Resolved(a)) = 1
            /\ \A h \in Resolved(a) :
                /\ h.source = SshConfig
                /\ h.hostname = None /\ h.user = None /\ h.port = None
                /\ h.identity_file = None
                /\ h.tags = << >>

\* C11 witness: resolved with an alias only the config declares next to
\* aliases the store holds, one of them in both.
C11_Witness ==
    /\ pc = "resolved" /\ all_hosts.ok
    /\ ConfigAliases \ StoreAliases # {}
    /\ ConfigAliases \cap StoreAliases # {}
    /\ StoreAliases \ ConfigAliases # {}

\* C12: list_all_hosts returns the hosts in strictly ascending order of alias
\* (so no alias twice), and their aliases are exactly those of the config
\* together with those of the store.
C12_SortedUnion ==
    (pc = "resolved" /\ all_hosts.ok) =>
        /\ \A i \in 1..(Len(all_hosts.val) - 1) :
              str_cmp(all_hosts.val[i].alias, all_hosts.val[i + 1].alias) < 0
        /\ { all_hosts.val[i].alias : i \in 1..Len(all_hosts.val) }
              = ConfigAliases \cup StoreAliases

\* C12 witness: four hosts returned, from both sources, "B" before "a".
C12_Witness ==
    /\ pc = "resolved" /\ all_hosts.ok
    /\ Len(all_hosts.val) = 4
    /\ all_hosts.val[1].alias = << "B" >>
    /\ ConfigAliases \cap StoreAliases # {}

\* C13: when a source fails (no alias from ~/.ssh/config, which is what a
\* missing or unreadable file gives; hosts.toml missing, unreadable or
\* malformed), list_all_hosts succeeds and returns exactly the hosts of the
\* other source.
C13_SourceFailureDegrades ==
    pc = "resolved" =>
        /\ hosts_toml.state # "ok" =>
              /\ all_hosts.ok
              /\ Range(all_hosts.val) = { ssh_config_host(a) : a \in ConfigAliases }
        /\ ssh_hosts = Ok(<< >>) =>
              /\ all_hosts.ok
              /\ Range(all_hosts.val)
                    = { hosts_toml_host(a, hosts_toml.hosts[a]) : a \in StoreAliases }

\* ------------------------------------------------------------------ run_picker

MaxQuery == 2
MaxHeight == 4

\* run_picker returns r: its locals are dropped. The terminal stays as the
\* caller of this operator leaves it.
ReturnFromPicker(r) ==
    /\ pc' = "picker_returned"
    /\ picker_result' = r
    /\ picker_hosts' = << >>
    /\ search' = << >>
    /\ selected' = 0
    /\ scroll_offset' = 0
    /\ term_height' = 0

\* run_picker, lines 34-63: the hosts joined with the history and sorted.
build_picker_hosts(hs, recent) ==
    sort_picker_hosts([i \in 1..Len(hs) |-> PickerHost(hs[i], recent)])

\* What the terminal setup of lines 69-73 can do: succeed, or fail at one of
\* its three calls.
SetupOutcomes == {"ok", "enable_raw_mode", "EnterAlternateScreen", "Terminal::new"}

\* run_picker, lines 26-73: the host list, the items, the terminal setup. Each
\* `?` of the setup returns at once, with the terminal as it is by then.
run_picker ==
    /\ pc = "run_picker"
    /\ UNCHANGED fnVars
    /\ \E config_dir_ok \in BOOLEAN, db_ok \in BOOLEAN, setup \in SetupOutcomes :
        /\ all_hosts' = list_all_hosts(ssh_hosts, config_dir_ok, hosts_toml)
        /\ IF unwrap_or_default(all_hosts') = << >>
           THEN /\ ReturnFromPicker(PickErr("no hosts found"))
                /\ UNCHANGED << raw_mode, alt_screen >>
           ELSE LET recent == IF db_ok THEN last_connected_hosts(history_db)
                              ELSE << >>
                    items == build_picker_hosts(unwrap_or_default(all_hosts'), recent)
                IN  /\ raw_mode' = (setup # "enable_raw_mode")
                    /\ alt_screen' = (setup \in {"ok", "Terminal::new"})
                    /\ IF setup = "ok"
                       THEN /\ picker_hosts' = items
                            /\ search' = unwrap_or(initial_filter, << >>)
                            /\ selected' = 0
                            /\ scroll_offset' = 0
                            /\ pc' = "picker_loop"
                            /\ UNCHANGED << term_height, picker_result >>
                       ELSE ReturnFromPicker(PickErr(setup))
    /\ UNCHANGED << exit_status, exit_by, stderr, history_db, audit >>
    /\ UNCHANGED << connVars, ssh_hosts, hosts_toml, invocation, initial_filter,
                    loop_result >>

\* ------------------------------------------------------------------ run_picker_loop

\* run_picker_loop, line 93 on the current state.
filtered == filter_hosts(picker_hosts, search)
matched == Len(filtered)

\* run_picker_loop, line 106, for the selection as it stands.
selected_render_row ==
    render_row_of(picker_hosts, filtered, selected, show_headers_of(picker_hosts, filtered))

\* Ratatui's size(): a height, or an error (then 24 is taken).
DefaultHeight == 24
TermSizes == {Some(h) : h \in 2..MaxHeight} \cup {None}

\* run_picker_loop returns r to run_picker: scroll_offset and term_height, its
\* locals, are dropped.
ReturnFromLoop(r) ==
    /\ pc' = "picker_restore"
    /\ loop_result' = r
    /\ scroll_offset' = 0
    /\ term_height' = 0

\* run_picker_loop, lines 93-130: one redraw. The selection is clamped, the
\* terminal height read, the scroll offset adjusted, the frame drawn.
picker_draw ==
    /\ pc = "picker_loop"
    /\ UNCHANGED fnVars
    /\ LET kept == filter_hosts(picker_hosts, search)
           sel == clamp_selected(selected, Len(kept))
           row == render_row_of(picker_hosts, kept, sel, show_headers_of(picker_hosts, kept))
       IN  /\ selected' = sel
           /\ \E size \in TermSizes, drawn \in BOOLEAN :
                LET height == unwrap_or(size, DefaultHeight)
                IN  IF drawn
                    THEN /\ term_height' = height
                         /\ scroll_offset' =
                                scroll_to(scroll_offset, row, saturating_sub(height, 2))
                         /\ pc' = "picker_poll"
                         /\ UNCHANGED loop_result
                    ELSE ReturnFromLoop(PickErr("draw"))
    /\ UNCHANGED << exit_status, exit_by, stderr, history_db, audit >>
    /\ UNCHANGED << connVars, resVars, invocation, initial_filter, picker_hosts,
                    search, raw_mode, alt_screen, picker_result >>

\* What event::poll and event::read can yield in one iteration: nothing within
\* the 50 ms, an error of either call, an event that is no key, or a key.
KeyChars == {"P", "#"}
KeyCodes == {"Esc", "Enter", "Up", "Down", "Backspace", "Tab"}
Key(code, ch, ctrl, press) ==
    [type |-> "key", code |-> code, ch |-> ch, ctrl |-> ctrl, press |-> press]
Other(type) == [type |-> type, code |-> "", ch |-> "", ctrl |-> FALSE, press |-> FALSE]
Events ==
    {Other(t) : t \in {"timeout", "poll", "read", "resize"}}
        \cup {Key(code, "", FALSE, TRUE) : code \in KeyCodes}
        \cup {Key("Char", ch, FALSE, TRUE) : ch \in KeyChars}
        \cup {Key("Char", "c", TRUE, TRUE), Key("Char", "P", TRUE, TRUE),
              Key("Esc", "", FALSE, FALSE)}

\* A variant of is_cancel that a slip would produce.
is_cancel_esc_only(ev) == ev.code = "Esc"

\* Lines 138-140: the keys that cancel.
is_cancel(ev) ==
    ev.code = "Esc" \/ (ev.code = "Char" /\ ev.ch = "c" /\ ev.ctrl)

\* Variants of the handlers below that a slip would produce.
confirm_item_unfiltered(items, kept, sel) == items[sel + 1].host
move_down_unchecked(sel, n) == sel + 1
pop_keep_first(str) == IF Len(str) <= 1 THEN str ELSE SubSeq(str, 1, Len(str) - 1)

\* Line 144: the host Enter returns.
confirm_item(items, kept, sel) == items[kept[sel + 1]].host

\* Lines 148-150 and 153-155: the selection after Up and after Down.
move_up(sel) == IF sel > 0 THEN sel - 1 ELSE sel
move_down(sel, n) == IF sel + 1 < n THEN sel + 1 ELSE sel

\* String::pop and String::push.
pop(str) == IF str = << >> THEN str ELSE SubSeq(str, 1, Len(str) - 1)
push(str, c) == Append(str, c)

\* What a key handler leaves alone.
KeyFrame ==
    /\ UNCHANGED fnVars
    /\ UNCHANGED << exit_status, exit_by, stderr, history_db, audit >>
    /\ UNCHANGED << connVars, resVars, invocation, initial_filter, picker_hosts,
                    raw_mode, alt_screen, picker_result >>

\* The loop goes round: back to line 93.
Continue(new_search, new_selected) ==
    /\ pc' = "picker_loop"
    /\ search' = new_search
    /\ selected' = new_selected
    /\ UNCHANGED << loop_result, scroll_offset, term_height >>

\* run_picker_loop, lines 132-168: one poll and the handling of what it yields.
picker_event(ev) ==
    /\ pc = "picker_poll"
    /\ ev.code = "Char" /\ ~is_cancel(ev) => Len(search) < MaxQuery
    /\ IF ev.type \in {"poll", "read"}
       THEN ReturnFromLoop(PickErr(ev.type)) /\ UNCHANGED << search, selected >>
       ELSE IF ev.type # "key" \/ ~ev.press
       THEN Continue(search, selected)
       ELSE IF is_cancel(ev)
       THEN ReturnFromLoop(PickErr("cancelled")) /\ UNCHANGED << search, selected >>
       ELSE IF ev.code = "Enter"
       THEN IF filtered # << >>
            THEN /\ ReturnFromLoop(PickOk(confirm_item(picker_hosts, filtered, selected)))
                 /\ UNCHANGED << search, selected >>
            ELSE Continue(search, selected)
       ELSE IF ev.code = "Up" THEN Continue(search, move_up(selected))
       ELSE IF ev.code = "Down" THEN Continue(search, move_down(selected, matched))
       ELSE IF ev.code = "Backspace" THEN Continue(pop(search), 0)
       ELSE IF ev.code = "Char" THEN Continue(push(search, ev.ch), 0)
       ELSE Continue(search, selected)
    /\ KeyFrame

\* run_picker, lines 78-81: the terminal is restored and the loop's result
\* returned. Each of the two calls can fail, and its `?` returns at once.
RestoreOutcomes == {"ok", "disable_raw_mode", "LeaveAlternateScreen"}

run_picker_restore ==
    /\ pc = "picker_restore"
    /\ UNCHANGED fnVars
    /\ \E restore \in RestoreOutcomes :
        /\ raw_mode' = (restore = "disable_raw_mode")
        /\ alt_screen' = (restore # "ok")
        /\ ReturnFromPicker(IF restore = "ok" THEN loop_result ELSE PickErr(restore))
    /\ UNCHANGED << exit_status, exit_by, stderr, history_db, audit >>
    /\ UNCHANGED << connVars, resVars, invocation, initial_filter, loop_result >>

\* ------------------------------------------------------------------ main

\* Lines 37-40: the first host of that alias, and whether another alias
\* contains the query.
find_exact(hs, query) ==
    LET at == {i \in 1..Len(hs) : hs[i].alias = query}
    IN  IF at = {} THEN None ELSE Some(hs[CHOOSE i \in at : \A j \in at : i <= j])
has_other_matches_self(hs, query) ==
    \E i \in 1..Len(hs) : contains(hs[i].alias, query)
has_other_matches(hs, query) ==
    \E i \in 1..Len(hs) : hs[i].alias # query /\ contains(hs[i].alias, query)

\* Lines 64-68: the hosts that carry the tag, letter case aside.
tag_matches(hs, tag) ==
    LET has_tag(h) == \E i \in 1..Len(h.tags) : to_lowercase(h.tags[i]) = to_lowercase(tag)
    IN  SelectSeq(hs, has_tag)

\* main calls connect_to_host(h, y, n, &cfg).
CallConnect(h, y, n) ==
    /\ host' = h
    /\ yes' = y
    /\ no_reconnect' = n
    /\ pc' = "connect_to_host"

\* main calls picker::run_picker(filter); y and n are kept for the connect.
CallPicker(filter, y, n) ==
    /\ initial_filter' = filter
    /\ yes' = y
    /\ no_reconnect' = n
    /\ pc' = "run_picker"
    /\ UNCHANGED host

\* main, lines 32-93: a single bare argument, --tag, or no argument at all.
main ==
    /\ pc = "main"
    /\ UNCHANGED fnVars
    /\ \E config_dir_ok \in BOOLEAN :
        LET listed == list_all_hosts(ssh_hosts, config_dir_ok, hosts_toml)
            hs == unwrap_or_default(listed)
            query == invocation.arg
        IN  CASE invocation.kind = "bare" ->
                    /\ all_hosts' = listed
                    /\ IF IsSome(find_exact(hs, query)) /\ ~has_other_matches(hs, query)
                       THEN /\ CallConnect(Unwrap(find_exact(hs, query)), FALSE, FALSE)
                            /\ UNCHANGED initial_filter
                       ELSE CallPicker(Some(query), FALSE, FALSE)
                    /\ UNCHANGED << exit_status, exit_by, stderr >>
              [] invocation.kind = "tag" ->
                    /\ all_hosts' = listed
                    /\ IF Len(tag_matches(hs, query)) = 0
                       THEN /\ stderr' = Append(stderr, "no hosts found with tag")
                            /\ Exit(1, "exit")
                            /\ UNCHANGED << host, yes, no_reconnect, initial_filter >>
                       ELSE /\ IF Len(tag_matches(hs, query)) = 1
                               THEN /\ CallConnect(tag_matches(hs, query)[1],
                                                   invocation.yes, invocation.no_reconnect)
                                    /\ UNCHANGED initial_filter
                               ELSE CallPicker(Some(<< "#" >> \o query),
                                               invocation.yes, invocation.no_reconnect)
                            /\ UNCHANGED << exit_status, exit_by, stderr >>
              [] invocation.kind = "no_args" ->
                    /\ config_dir_ok
                    /\ CallPicker(None, invocation.yes, invocation.no_reconnect)
                    /\ UNCHANGED << all_hosts, exit_status, exit_by, stderr >>
    /\ UNCHANGED << history_db, audit, stdin, cfg, ssh_args, target, mode, client,
                    attempt, spawned, delays, running >>
    /\ UNCHANGED << ssh_hosts, hosts_toml, invocation, picker_hosts, search, selected,
                    scroll_offset, term_height, raw_mode, alt_screen, loop_result,
                    picker_result >>

\* main, lines 46-49, 78-83 and 90-93: the picker has returned. Ok(host) goes
\* on to connect_to_host; any Err ends the process with status 0, by
\* std::process::exit(0) or, without arguments, by main returning Ok(()).
main_picker_returned ==
    /\ pc = "picker_returned"
    /\ UNCHANGED fnVars
    /\ IF picker_result.ok
       THEN /\ host' = Unwrap(picker_result.host)
            /\ pc' = "connect_to_host"
            /\ UNCHANGED << exit_status, exit_by >>
       ELSE /\ Exit(0, IF invocation.kind = "no_args" THEN "main_ok" ELSE "exit")
            /\ UNCHANGED host
    /\ UNCHANGED << stderr, history_db, audit, yes, no_reconnect, stdin, cfg, ssh_args,
                    target, mode, client, attempt, spawned, delays, running >>
    /\ UNCHANGED << resVars, pickVars >>

\* ------------------------------------------------------------------ Spec

\* The files and the command lines main is run with.
S_a == << "a" >>
S_pb == << "p", "b" >>
S_c == << "c" >>
S_e == << "e" >>
MainStore ==
    [a \in {S_pb, S_c, S_e} |->
        IF a = S_pb THEN HostEntry(<< "h" >>, Some(<< "u" >>), Some(22), None, << S_prod >>)
        ELSE IF a = S_c THEN HostEntry(<< "h", "2" >>, None, None, None, << S_db, S_prod >>)
        ELSE HostEntry(<< "h", "3" >>, None, None, None, << S_prod >>)]
MainSshResults == {Ok(<< >>), Ok(<< S_a, S_pb >>), Ok(<< << "p" >> >>)}
MainTomlFiles ==
    {[state |-> "missing", hosts |-> << >>], [state |-> "ok", hosts |-> MainStore]}
MainHistories ==
    {<< >>, << [alias |-> S_e, connected_at |-> << "1" >>] >>}
Invocations ==
    {Invocation("no_args", << >>, FALSE, FALSE)}
        \cup {Invocation("bare", arg, FALSE, FALSE) : arg \in {S_a, << "p" >>}}
        \cup {Invocation("tag", arg, TRUE, TRUE) : arg \in {S_prod, S_db, << "x" >>}}
NoHost == Host(<< >>, None, None, None, None, << >>, SshConfig)

\* The client of the connection that follows a confirmed pick: lost once, then
\* ended normally.
MainScript ==
    [i \in 1..(MaxRetries + 1) |-> IF i = 1 THEN [kind |-> "exit", code |-> 255]
                                   ELSE [kind |-> "exit", code |-> 0]]

Init ==
    /\ pc = "main"
    /\ exit_status = None
    /\ exit_by = ""
    /\ stderr = << >>
    /\ history_db \in MainHistories
    /\ audit = << >>
    /\ host = NoHost
    /\ yes = FALSE
    /\ no_reconnect = FALSE
    /\ stdin = None
    /\ cfg = [reconnect |-> TRUE, reconnect_retries |-> 1,
              keepalive_interval |-> default_keepalive,
              danger_tags |-> default_danger_tags]
    /\ ssh_args = << >>
    /\ target = << >>
    /\ mode = ""
    /\ client = MainScript
    /\ attempt = 0
    /\ spawned = << >>
    /\ delays = 0
    /\ running = 0
    /\ ssh_hosts \in MainSshResults
    /\ hosts_toml \in MainTomlFiles
    /\ all_hosts = Ok(<< >>)
    /\ invocation \in Invocations
    /\ PickerIdle
    /\ FnIdle

Next ==
    \/ main
    \/ run_picker
    \/ picker_draw
    \/ \E ev \in Events : picker_event(ev)
    \/ run_picker_restore
    \/ main_picker_returned
    \/ connect_to_host
    \/ run_ssh
    \/ run_with_reconnect_spawn
    \/ run_with_reconnect_status
    \/ run_with_reconnect_sleep
    \/ ssh_run_spawn
    \/ connect_to_host_done

Spec == Init /\ [][Next]_vars

\* ------------------------------------------------------------------ C3 .. C9

\* The picker is in Editing: between two iterations of the loop.
Editing == pc \in {"picker_loop", "picker_poll"}

\* A key press with the given code and no modifier.
Pressed(code) == Key(code, "", FALSE, TRUE)

\* The errors run_picker returns before it has enabled raw mode, and the ones
\* of the two restoring calls themselves.
BeforeRawMode == {"no hosts found", "enable_raw_mode"}
RestoreFailed == {"disable_raw_mode", "LeaveAlternateScreen"}

\* C3: whenever run_picker returns after it has enabled raw mode (a confirmed
\* pick, a cancellation, an error of the loop, a failure to enter the alternate
\* screen or to construct the terminal), raw mode is off and the alternate
\* screen is left.
C3_TerminalReleased ==
    (pc = "picker_returned"
        /\ (picker_result.ok \/ picker_result.err \notin BeforeRawMode \cup RestoreFailed))
    => (~raw_mode /\ ~alt_screen)

\* C4, as stated: at every redraw the render row of the selected item lies in
\* the window of terminal height - 2 rows that starts at the scroll offset.
C4_ScrollWindow ==
    pc = "picker_poll"
    => /\ scroll_offset <= selected_render_row
       /\ selected_render_row < scroll_offset + (term_height - 2)

\* C4, amended: at every redraw the scroll offset is at most the render row of
\* the selected item, and whenever the terminal is higher than 2 rows the row
\* is below offset + (height - 2).
C4_ScrollWindowVisible ==
    pc = "picker_poll"
    => /\ scroll_offset <= selected_render_row
       /\ (term_height > 2 => selected_render_row < scroll_offset + (term_height - 2))

\* The list is scrolled in a terminal of three rows, past a group header.
C4_Witness ==
    /\ pc = "picker_poll"
    /\ term_height = 3
    /\ scroll_offset > 0
    /\ selected > 0
    /\ selected_render_row > selected

\* C5: in Editing, whenever the filtered set is non-empty the selection is one
\* of its indices; Up at index 0 and Down at the last index leave the selection
\* alone, otherwise they move it by exactly one.
C5_SelectionInRange ==
    /\ [](Editing /\ filtered # << >> => 0 <= selected /\ selected < matched)
    /\ [][(picker_event(Pressed("Up"))
              => selected' = IF selected = 0 THEN selected ELSE selected - 1)
          /\ (picker_event(Pressed("Down"))
              => selected' = IF selected = matched - 1 \/ matched = 0 THEN selected
                             ELSE selected + 1)]_vars

\* The selection has been moved down to the last of several kept items.
C5_Witness ==
    /\ pc = "picker_loop"
    /\ matched > 2
    /\ selected = matched - 1

\* A host matches a query: every host matches the empty query, a query that
\* begins with '#' is looked for in the tags, any other in alias, hostname,
\* user and tags, letter case aside.
Matches(h, query) ==
    \/ query = << >>
    \/ /\ query # << >>
       /\ query[1] = "#"
       /\ \E i \in 1..Len(h.tags) : contains(to_lowercase(h.tags[i]), to_lowercase(Tail(query)))
    \/ /\ query # << >>
       /\ query[1] # "#"
       /\ \E f \in {h.alias} \cup Range(h.hostname) \cup Range(h.user) \cup Range(h.tags) :
            contains(to_lowercase(f), to_lowercase(query))

\* C6: Enter on a non-empty filtered set ends the loop with the item at the
\* selected index of the filtered set, a host that matches the query, and that
\* host is what run_picker returns; Enter on an empty filtered set leaves
\* query, selection and scroll offset alone and the picker stays in Editing.
C6_EnterConfirms ==
    /\ [][picker_event(Pressed("Enter"))
          => IF filtered # << >>
             THEN /\ pc' = "picker_restore"
                  /\ loop_result' = PickOk(picker_hosts[filtered[selected + 1]].host)
                  /\ Matches(Unwrap(loop_result'.host), search)
             ELSE /\ pc' = "picker_loop"
                  /\ UNCHANGED << search, selected, scroll_offset, loop_result >>]_vars
    /\ [](pc = "picker_returned" /\ picker_result.ok => picker_result = loop_result)
    /\ [](loop_result.ok => pc # "picker_poll")

\* A pick confirmed under a query that keeps only some items, below the first.
C6_Witness ==
    /\ pc = "picker_restore"
    /\ loop_result.ok
    /\ 0 < matched /\ matched < Len(picker_hosts)
    /\ selected > 0

\* C7: a character key appends the character to the query, Backspace removes
\* the last character of the query (none of an empty one); both set the
\* selection to 0 and neither ends the loop.
C7_QueryEditing ==
    [][/\ \A ch \in KeyChars :
            picker_event(Key("Char", ch, FALSE, TRUE))
            => /\ search' = search \o << ch >>
               /\ selected' = 0
               /\ pc' = "picker_loop"
               /\ loop_result' = loop_result
       /\ picker_event(Pressed("Backspace"))
            => /\ search' = IF search = << >> THEN << >>
                            ELSE [i \in 1..(Len(search) - 1) |-> search[i]]
               /\ selected' = 0
               /\ pc' = "picker_loop"
               /\ loop_result' = loop_result]_vars

\* A query typed into a picker opened without a filter.
C7_Witness ==
    /\ pc = "picker_loop"
    /\ initial_filter = None
    /\ Len(search) = MaxQuery
    /\ selected = 0

\* C8: Escape and Ctrl-C end the loop as cancelled, with no host and the query
\* as it was; from then on nothing is written to history or audit log and no
\* client is started, and the process exits with status 0 and nothing on
\* stderr.
C8_Cancel ==
    /\ [][\A ev \in {Pressed("Esc"), Key("Char", "c", TRUE, TRUE)} :
            picker_event(ev)
            => /\ pc' = "picker_restore"
               /\ loop_result' = PickErr("cancelled")
               /\ search' = search]_vars
    /\ [](loop_result = PickErr("cancelled")
            => /\ history_db \in MainHistories
               /\ audit = << >>
               /\ spawned = << >>
               /\ running = 0
               /\ stderr = << >>
               /\ pc \in {"picker_restore", "picker_returned", "exited"}
               /\ (pc = "exited" => exit_status = Some(0)))

\* The process has exited after a cancellation.
C8_Witness ==
    /\ pc = "exited"
    /\ loop_result = PickErr("cancelled")
    /\ exit_status = Some(0)

\* C9: when run_picker was called and found no host at all, the process exits
\* with a status other than 0 and with a message on stderr.
C9_EmptyListReported ==
    (pc = "exited" /\ picker_result = PickErr("no hosts found"))
    => (exit_status # Some(0) /\ stderr # << >>)

\* ------------------------------------------------------------------ C14

\* C14: a command line of one bare host argument, run when neither source
\* holds a host, does not end (unless the client cannot be found) without a
\* client process started for that argument.
C14_DirectConnectNotBlocked ==
    (/\ pc = "exited"
     /\ invocation.kind = "bare"
     /\ ssh_hosts = Ok(<< >>)
     /\ hosts_toml.state = "missing"
     /\ exit_by # "main_err")
    => (spawned # << >> /\ IsIn(spawned[1], invocation.arg))

\* ------------------------------------------------------------------ SpecArgs

MaxArgs == 3

\* The tokens of the argument vectors: flags with and without a value, ports
\* that parse and one that does not, targets with and without a user, and the
\* keepalive option as inject_keepalive spells it and in lower case.
T_22 == << "2", "2" >>
T_65536 == << "6", "5", "5", "3", "6" >>
T_v == << "-", "v" >>
T_user_at_host == << "u", "@", "h", "@", "x" >>
T_h == << "h" >>
T_interval_30 == S_ServerAliveInterval \o << "=", "3", "0" >>
T_interval_30_lower == to_lowercase(S_ServerAliveInterval) \o << "=", "3", "0" >>
ArgTokens ==
    { S_p, T_22, T_65536, S_i, T_v, T_user_at_host, T_h, S_o,
      T_interval_30, T_interval_30_lower }
ArgVectors == UNION { [1..n -> ArgTokens] : n \in 0..MaxArgs }
Intervals == { default_keepalive, 5 }

\* The four extractors of ssh.rs on one vector.
Extracts(args) ==
    [target |-> extract_target_host(args),
     target_full |-> extract_target_host_full(args),
     port |-> extract_port(args),
     identity_file |-> extract_identity_file(args)]

\* inject_keepalive(&mut args, interval): the vector is changed in place; a
\* second call works on what the first left.
call_inject_keepalive ==
    /\ pc = "args"
    /\ Len(fn_output.injected) < 2
    /\ LET args == IF fn_output.injected = << >> THEN fn_input.args
                   ELSE fn_output.injected[Len(fn_output.injected)]
       IN  fn_output' = [fn_output EXCEPT
                            !.injected = Append(@, inject_keepalive(args, fn_input.interval))]
    /\ UNCHANGED << procVars, connVars, resVars, pickVars, fn_input >>

\* The extractors called on the vector as the user gave it.
call_extract ==
    /\ pc = "args"
    /\ fn_output.extracted = None
    /\ fn_output' = [fn_output EXCEPT !.extracted = Some(Extracts(fn_input.args))]
    /\ UNCHANGED << procVars, connVars, resVars, pickVars, fn_input >>

\* The extractors called on the vector after inject_keepalive.
call_extract_injected ==
    /\ pc = "args"
    /\ fn_output.injected # << >>
    /\ fn_output.extracted_injected = None
    /\ fn_output' = [fn_output EXCEPT
                        !.extracted_injected = Some(Extracts(fn_output.injected[1]))]
    /\ UNCHANGED << procVars, connVars, resVars, pickVars, fn_input >>

InitArgs ==
    /\ pc = "args"
    /\ exit_status = None
    /\ exit_by = ""
    /\ stderr = << >>
    /\ history_db = << >>
    /\ audit = << >>
    /\ host = NoHost
    /\ yes = FALSE
    /\ no_reconnect = FALSE
    /\ stdin = None
    /\ cfg = [reconnect |-> TRUE, reconnect_retries |-> MaxRetries,
              keepalive_interval |-> default_keepalive,
              danger_tags |-> default_danger_tags]
    /\ ssh_args = << >>
    /\ target = << >>
    /\ mode = ""
    /\ client = << >>
    /\ attempt = 0
    /\ spawned = << >>
    /\ delays = 0
    /\ running = 0
    /\ ssh_hosts = Ok(<< >>)
    /\ hosts_toml = [state |-> "missing", hosts |-> << >>]
    /\ all_hosts = Ok(<< >>)
    /\ invocation = NoInvocation
    /\ PickerIdle
    /\ fn_input \in [args : ArgVectors, interval : Intervals]
    /\ fn_output = [injected |-> << >>, extracted |-> None, extracted_injected |-> None]

NextArgs ==
    \/ call_inject_keepalive
    \/ call_extract
    \/ call_extract_injected

SpecArgs == InitArgs /\ [][NextArgs]_vars

\* ------------------------------------------------------------------ C15 .. C17

\* The keyword of an option token: what stands before its first '=' or blank.
RECURSIVE OptionKey(_)
OptionKey(tok) ==
    IF tok = << >> \/ tok[1] \in {"=", " "} THEN << >>
    ELSE << tok[1] >> \o OptionKey(Tail(tok))

\* The token sets the keepalive interval: the client matches keywords without
\* regard to letter case.
IsKeepaliveOption(tok) == eq_ignore_ascii_case(OptionKey(tok), S_ServerAliveInterval)

\* The vector specifies a keepalive interval as the client reads it: as the
\* value of a -o (detached or attached) among the options before the command,
\* which begins at the second positional token.
RECURSIVE SpecifiesKeepalive(_, _)
SpecifiesKeepalive(args, seen_host) ==
    IF args = << >> THEN FALSE
    ELSE IF args[1] = S_o
         THEN \/ Len(args) >= 2 /\ IsKeepaliveOption(args[2])
              \/ SpecifiesKeepalive(SubSeq(args, 3, Len(args)), seen_host)
    ELSE IF starts_with(args[1], S_o)
         THEN \/ IsKeepaliveOption(SubSeq(args[1], 3, Len(args[1])))
              \/ SpecifiesKeepalive(Tail(args), seen_host)
    ELSE IF args[1] \in FLAGS_WITH_VALUES
         THEN SpecifiesKeepalive(SubSeq(args, 3, Len(args)), seen_host)
    ELSE IF starts_with(args[1], << "-" >>) THEN SpecifiesKeepalive(Tail(args), seen_host)
    ELSE ~seen_host /\ SpecifiesKeepalive(Tail(args), TRUE)

\* What inject_keepalive prepends for an interval.
KeepalivePrefix(interval) ==
    << S_o, S_ServerAliveInterval \o << "=" >> \o to_string(interval),
       S_o, S_ServerAliveCountMax3 >>

\* C15: inject_keepalive returns the vector as it is when the vector specifies
\* a keepalive interval, and otherwise the four tokens -o
\* ServerAliveInterval=<interval> -o ServerAliveCountMax=3 followed by the vector.
C15_KeepaliveRespected ==
    fn_output.injected # << >> =>
        fn_output.injected[1] =
            IF SpecifiesKeepalive(fn_input.args, FALSE) THEN fn_input.args
            ELSE KeepalivePrefix(fn_input.interval) \o fn_input.args

\* The user's interval in lower case, overridden: the injected interval stands
\* before it, and the client keeps the first value it reads.
C15_Overridden ==
    /\ fn_input.args = << S_o, T_interval_30_lower, T_h >>
    /\ fn_output.injected # << >>
    /\ fn_output.injected[1] = KeepalivePrefix(fn_input.interval) \o fn_input.args

\* C16: a second inject_keepalive leaves what the first returned, and
\* inject_keepalive leaves every vector one of whose tokens holds
\* "ServerAliveInterval".
C16_Idempotent ==
    /\ Len(fn_output.injected) = 2 => fn_output.injected[2] = fn_output.injected[1]
    /\ (fn_output.injected # << >>
          /\ \E i \in 1..Len(fn_input.args) :
                \E j \in 0..(Len(fn_input.args[i]) - Len(S_ServerAliveInterval)) :
                    SubSeq(fn_input.args[i], j + 1, j + Len(S_ServerAliveInterval))
                        = S_ServerAliveInterval)
       => fn_output.injected[1] = fn_input.args

\* C16 witness: applied twice to a vector without the option, which the first
\* call has lengthened.
C16_Witness ==
    /\ Len(fn_output.injected) = 2
    /\ Len(fn_input.args) = MaxArgs
    /\ Len(fn_output.injected[2]) = MaxArgs + 4

\* C17: the tokens of the vector are the last tokens of what inject_keepalive
\* returns, unchanged and in order, and the four extractors return on the
\* result what they return on the vector.
C17_PositionalSemantics ==
    /\ fn_output.injected # << >> =>
        LET out == fn_output.injected[1]
        IN  /\ Len(out) >= Len(fn_input.args)
            /\ SubSeq(out, Len(out) - Len(fn_input.args) + 1, Len(out)) = fn_input.args
    /\ (IsSome(fn_output.extracted) /\ IsSome(fn_output.extracted_injected))
        => fn_output.extracted_injected = fn_output.extracted

\* C17 witness: target, port and identity file extracted before and after an
\* injection that has lengthened the vector.
C17_Witness ==
    /\ IsSome(fn_output.extracted) /\ IsSome(fn_output.extracted_injected)
    /\ Len(fn_output.injected[1]) > Len(fn_input.args)
    /\ IsSome(Unwrap(fn_output.extracted).target)
    /\ IsSome(Unwrap(fn_output.extracted).port)

\* ------------------------------------------------------------------ C18, C19

\* Reading a vector from the left: a token is the value of a flag when the
\* token before it is a value-consuming flag that is not itself a value, and
\* it is positional when it is neither such a flag nor a value nor begins
\* with '-'.
RECURSIVE IsValueAt(_, _)
IsValueAt(args, i) ==
    i > 1 /\ args[i - 1] \in FLAGS_WITH_VALUES /\ ~IsValueAt(args, i - 1)
IsPositionalAt(args, i) ==
    /\ ~IsValueAt(args, i)
    /\ args[i] \notin FLAGS_WITH_VALUES
    /\ (args[i] = << >> \/ args[i][1] # "-")
Positionals(args) == { i \in 1..Len(args) : IsPositionalAt(args, i) }
FirstPositional(args) ==
    CHOOSE i \in Positionals(args) : \A j \in Positionals(args) : i <= j

\* The part of a token after its first '@', the token itself without one.
HostPart(tok) ==
    IF \A k \in 1..Len(tok) : tok[k] # "@" THEN tok
    ELSE LET k == CHOOSE k \in 1..Len(tok) :
                    tok[k] = "@" /\ \A j \in 1..(k - 1) : tok[j] # "@"
         IN  [j \in 1..(Len(tok) - k) |-> tok[k + j]]

\* C18: extract_target_host_full returns the first positional token of the
\* vector and None when there is none; extract_target_host returns the host
\* part of the same token, and is None for the same vectors.
C18_TargetExtraction ==
    IsSome(fn_output.extracted) =>
        LET args == fn_input.args
            got == Unwrap(fn_output.extracted)
        IN  IF Positionals(args) = {}
            THEN got.target_full = None /\ got.target = None
            ELSE /\ got.target_full = Some(args[FirstPositional(args)])
                 /\ got.target = Some(HostPart(args[FirstPositional(args)]))

\* C18 witness: the target user@host found after a flag and its value.
C18_Witness ==
    /\ IsSome(fn_output.extracted)
    /\ fn_input.args = << S_p, T_22, T_user_at_host >>
    /\ Unwrap(fn_output.extracted).target_full = Some(T_user_at_host)
    /\ Unwrap(fn_output.extracted).target = Some(<< "h", "@", "x" >>)

\* C18, the other case reached: a value-consuming flag as the last token.
C18_WitnessNone ==
    /\ IsSome(fn_output.extracted)
    /\ fn_input.args = << T_v, S_i >>
    /\ Unwrap(fn_output.extracted).target = None

\* The tokens that are a decimal u16, with their values.
IsPortToken(tok) ==
    /\ tok # << >>
    /\ \A k \in 1..Len(tok) : IsIn(Digits, tok[k])
    /\ Len(tok) <= 5
    /\ digits_value(tok) <= 65535

\* The first index at which a flag stands, 0 without one.
FirstIndexOf(args, flag) ==
    IF \A i \in 1..Len(args) : args[i] # flag THEN 0
    ELSE CHOOSE i \in 1..Len(args) : args[i] = flag /\ \A j \in 1..(i - 1) : args[j] # flag

\* C19: extract_port returns the token after the first -p as a number when it
\* is a decimal u16, and extract_identity_file the token after the first -i;
\* without the flag, with the flag as the last token, or with a port that is
\* no u16, the result is None.
C19_PortAndIdentity ==
    IsSome(fn_output.extracted) =>
        LET args == fn_input.args
            got == Unwrap(fn_output.extracted)
            p == FirstIndexOf(args, S_p)
            i == FirstIndexOf(args, S_i)
        IN  /\ IF p = 0 \/ p = Len(args) THEN got.port = None
               ELSE IF IsPortToken(args[p + 1])
                    THEN got.port = Some(digits_value(args[p + 1])) /\ got.port[1] <= 65535
               ELSE got.port = None
            /\ IF i = 0 \/ i = Len(args) THEN got.identity_file = None
               ELSE got.identity_file = Some(args[i + 1])

\* C19 witness: a port that parses and an identity file, both extracted.
C19_Witness ==
    /\ IsSome(fn_output.extracted)
    /\ Unwrap(fn_output.extracted).port = Some(22)
    /\ IsSome(Unwrap(fn_output.extracted).identity_file)

\* C19, the other case reached: the port 65536 is no u16.
C19_WitnessOverflow ==
    /\ IsSome(fn_output.extracted)
    /\ fn_input.args = << S_p, T_65536 >>
    /\ Unwrap(fn_output.extracted).port = None

\* ------------------------------------------------------------------ ssh_config.rs

\* str::find(char): the index of the first occurrence, 0 for none.
find(s, c) ==
    IF \A i \in 1..Len(s) : s[i] # c THEN 0
    ELSE CHOOSE i \in 1..Len(s) : s[i] = c /\ \A j \in 1..(i - 1) : s[j] # c

\* The index of the first whitespace character, 0 for none.
find_whitespace(s) ==
    IF \A i \in 1..Len(s) : ~IsSpace(s[i]) THEN 0
    ELSE CHOOSE i \in 1..Len(s) : IsSpace(s[i]) /\ \A j \in 1..(i - 1) : ~IsSpace(s[j])

\* split_keyword: `Key=Value` at the first '=' of the line when both sides are
\* non-empty after trimming, else `Key Value` at the first whitespace.
split_keyword(line) ==
    LET eq_pos == find(line, "=")
        key == trim(SubSeq(line, 1, eq_pos - 1))
        val == trim(SubSeq(line, eq_pos + 1, Len(line)))
        ws == find_whitespace(line)
        rest == trim(SubSeq(line, ws + 1, Len(line)))
    IN  IF eq_pos > 0 /\ key # << >> /\ val # << >>
        THEN Some([keyword |-> key, value |-> val])
        ELSE IF ws = 0 \/ rest = << >> THEN None
        ELSE Some([keyword |-> SubSeq(line, 1, ws - 1), value |-> rest])

\* str::split_whitespace
split_whitespace(s) ==
    LET starts == { i \in 1..Len(s) : ~IsSpace(s[i]) /\ (i = 1 \/ IsSpace(s[i - 1])) }
        start(k) == CHOOSE i \in starts : Cardinality({ j \in starts : j < i }) = k - 1
        end(i) == CHOOSE j \in i..Len(s) :
                      /\ \A m \in i..j : ~IsSpace(s[m])
                      /\ (j = Len(s) \/ IsSpace(s[j + 1]))
    IN  [k \in 1..Cardinality(starts) |-> SubSeq(s, start(k), end(start(k)))]

\* parse_file, lines 45-50: the aliases of a Host value, wildcard patterns skipped.
host_aliases(value) ==
    SelectSeq(split_whitespace(value), LAMBDA alias : ~IsIn(alias, "*") /\ ~IsIn(alias, "?"))

\* Path::is_absolute, PathBuf::join and Path::parent on '/'-separated paths.
is_absolute(p) == p # << >> /\ p[1] = "/"
join(base, p) == IF is_absolute(p) THEN p ELSE base \o << "/" >> \o p
RECURSIVE parent(_)
parent(p) ==
    IF p = << >> THEN << >>
    ELSE IF p[Len(p)] = "/" THEN SubSeq(p, 1, Len(p) - 1)
    ELSE parent(SubSeq(p, 1, Len(p) - 1))

expand_tilde(path, home) ==
    IF starts_with(path, << "~", "/" >>) THEN join(home, SubSeq(path, 3, Len(path)))
    ELSE IF path = << "~" >> THEN home
    ELSE path

\* glob::Pattern::matches: '?' is one character and '*' any run of characters,
\* neither crossing a '/'.
RECURSIVE glob_matches(_, _)
glob_matches(pat, s) ==
    IF pat = << >> THEN s = << >>
    ELSE IF s = << >> THEN pat[1] = "*" /\ \E pat_rest \in {Tail(pat)} : glob_matches(pat_rest, s)
    ELSE \E pat_rest \in {Tail(pat)}, s_rest \in {Tail(s)} :
            IF pat[1] = "*"
            THEN \/ glob_matches(pat_rest, s)
                 \/ s[1] # "/" /\ glob_matches(pat, s_rest)
            ELSE IF pat[1] = "?"
            THEN s[1] # "/" /\ glob_matches(pat_rest, s_rest)
            ELSE s[1] = pat[1] /\ glob_matches(pat_rest, s_rest)

\* The home directory, the root configuration file and one more file beside it.
Home == << "/", "h" >>
ConfigPath == join(Home, << ".", "s", "s", "h", "/", "c", "o", "n", "f", "i", "g" >>)
ExtraPath == join(Home, << ".", "s", "s", "h", "/", "e", "x", "t", "r", "a" >>)

\* A file of the file system: missing, present but unreadable, or readable with
\* its lines (str::lines).
MissingFile == [kind |-> "missing", lines |-> << >>]
UnreadableFile == [kind |-> "unreadable", lines |-> << >>]
File(lines) == [kind |-> "file", lines |-> lines]

\* glob::glob: the existing paths that match the pattern, in ascending order.
glob(pattern, fs) ==
    sorted_strs(UNION { { p \in DOMAIN fs : fs[p].kind # "missing" /\ glob_matches(pat, p) } :
                        pat \in {pattern} })

\* The same without the glob expansion: the pattern taken as one path.
include_paths_literal(pattern, home, config_path, fs) ==
    LET expanded == expand_tilde(pattern, home)
        base == IF is_absolute(expanded) THEN expanded
                ELSE join(parent(config_path), expanded)
    IN  IF base \in DOMAIN fs /\ fs[base].kind # "missing" THEN << base >> ELSE << >>

\* The same with every relative pattern resolved against the directory of the
\* root file.
include_base_root(pattern, home, config_path) ==
    LET expanded == expand_tilde(pattern, home)
    IN  IF is_absolute(expanded) THEN expanded
        ELSE join(parent(ConfigPath), expanded)

\* process_include, lines 86-94: the pattern handed to glob.
include_base(pattern, home, config_path) ==
    LET expanded == expand_tilde(pattern, home)
    IN  IF is_absolute(expanded) THEN expanded
        ELSE join(parent(config_path), expanded)

\* process_include, lines 86-100: the paths an Include value stands for.
include_paths(pattern, home, config_path, fs) ==
    glob(include_base(pattern, home, config_path), fs)

\* A call of parse_file that got past read_to_string: the file, the index of
\* the next line and the Match flag.  An unreadable file returns at once.
Frame(path) == [path |-> path, line |-> 1, in_match_block |-> FALSE]
open_file(path, fs) == IF fs[path].kind = "file" THEN << Frame(path) >> ELSE << >>

\* The same with a visited-file set: a file in the course of being parsed is
\* not entered again.
RECURSIVE open_files_visited(_, _)
open_files_visited(paths, fs) ==
    IF paths = << >> THEN << >>
    ELSE (IF \E i \in 1..Len(fn_output.stack) : fn_output.stack[i].path = paths[1]
          THEN << >> ELSE open_file(paths[1], fs))
         \o open_files_visited(Tail(paths), fs)

\* The calls of parse_file that process_include makes, lines 102-108, first
\* path first.
RECURSIVE open_files(_, _)
open_files(paths, fs) ==
    IF paths = << >> THEN << >>
    ELSE open_file(paths[1], fs) \o open_files(Tail(paths), fs)

\* The depth of nested parse_file calls at which the process runs out of stack.
MaxDepth == 3

\* parse_ssh_config, lines 7-13, called with the file system as it is then: no
\* root file is the empty list at once.
parse_ssh_config(fs) ==
    /\ pc = "parse_ssh_config"
    /\ fn_input' = fs
    /\ IF fs[ConfigPath].kind = "missing"
       THEN /\ ssh_hosts' = Ok(<< >>)
            /\ pc' = "parsed"
            /\ UNCHANGED fn_output
       ELSE /\ fn_output' = [stack |-> open_file(ConfigPath, fs), hosts |-> << >>]
            /\ pc' = "parse_file"
            /\ UNCHANGED ssh_hosts
    /\ UNCHANGED << exit_status, exit_by, stderr, history_db, audit >>
    /\ UNCHANGED << connVars, hosts_toml, all_hosts, invocation, pickVars >>

\* A `let` of the source: the value is computed once and the body uses it.
Let(value, Body(_)) == CHOOSE r \in { Body(v) : v \in {value} } : TRUE

\* parse_file, lines 28-40: the keyword, in lower case, and the value of a
\* line; None for a blank line, a comment and a line without a value.
directive(line) ==
    Let(trim(line), LAMBDA trimmed :
        IF trimmed = << >> \/ trimmed[1] = "#" THEN None
        ELSE Let(split_keyword(trimmed), LAMBDA kv :
                IF IsSome(kv)
                THEN Some([kw_lower |-> to_lowercase(Unwrap(kv).keyword),
                           value |-> Unwrap(kv).value])
                ELSE None))

\* parse_file, lines 42-59, for one line of the file of the innermost call:
\* the calls (innermost first) and the aliases after the line, and whether the
\* stack was used up by it.
parse_line(stack, hosts, fs) ==
    LET frame == Head(stack)
        next == [frame EXCEPT !.line = @ + 1]
        callers == Tail(stack)
        skip == [stack |-> << next >> \o callers, hosts |-> hosts, exhausted |-> FALSE]
    IN  Let(directive(fs[frame.path].lines[frame.line]), LAMBDA d :
            IF d = None THEN skip
            ELSE IF Unwrap(d).kw_lower = << "h", "o", "s", "t" >>
            THEN [stack |-> << [next EXCEPT !.in_match_block = FALSE] >> \o callers,
                  hosts |-> hosts \o host_aliases(Unwrap(d).value),
                  exhausted |-> FALSE]
            ELSE IF Unwrap(d).kw_lower = << "m", "a", "t", "c", "h" >>
            THEN [stack |-> << [next EXCEPT !.in_match_block = TRUE] >> \o callers,
                  hosts |-> hosts,
                  exhausted |-> FALSE]
            ELSE IF Unwrap(d).kw_lower = << "i", "n", "c", "l", "u", "d", "e" >>
                    /\ ~frame.in_match_block
            THEN Let(include_paths(Unwrap(d).value, Home, frame.path, fs), LAMBDA paths :
                 Let(open_files(paths, fs), LAMBDA called :
                    IF Len(called) + Len(stack) > MaxDepth
                    THEN [stack |-> stack, hosts |-> hosts, exhausted |-> TRUE]
                    ELSE [stack |-> called \o << next >> \o callers,
                          hosts |-> hosts,
                          exhausted |-> FALSE]))
            ELSE skip)

\* parse_file, lines 27-60: the next line of the innermost call is read.
parse_file_line ==
    /\ pc = "parse_file"
    /\ fn_output.stack # << >>
    /\ Head(fn_output.stack).line <= Len(fn_input[Head(fn_output.stack).path].lines)
    /\ \E after \in {parse_line(fn_output.stack, fn_output.hosts, fn_input)} :
          /\ fn_output' = [stack |-> after.stack, hosts |-> after.hosts]
          /\ pc' = IF after.exhausted THEN "exhausted" ELSE "parse_file"
    /\ UNCHANGED << fn_input, ssh_hosts, exit_status, exit_by, stderr, history_db, audit >>
    /\ UNCHANGED << connVars, hosts_toml, all_hosts, invocation, pickVars >>

\* The same with one Match flag for all files: the caller goes on with the
\* flag of the file that returns.
parse_file_return_shared_flag ==
    /\ pc = "parse_file"
    /\ fn_output.stack # << >>
    /\ Head(fn_output.stack).line > Len(fn_input[Head(fn_output.stack).path].lines)
    /\ fn_output' =
          [fn_output EXCEPT !.stack =
              IF Len(fn_output.stack) >= 2
              THEN << [fn_output.stack[2] EXCEPT
                          !.in_match_block = fn_output.stack[1].in_match_block] >>
                   \o SubSeq(fn_output.stack, 3, Len(fn_output.stack))
              ELSE Tail(fn_output.stack)]
    /\ UNCHANGED << pc, fn_input, ssh_hosts, exit_status, exit_by, stderr, history_db, audit >>
    /\ UNCHANGED << connVars, hosts_toml, all_hosts, invocation, pickVars >>

\* parse_file, line 62: the innermost call has no line left and returns.
parse_file_return ==
    /\ pc = "parse_file"
    /\ fn_output.stack # << >>
    /\ Head(fn_output.stack).line > Len(fn_input[Head(fn_output.stack).path].lines)
    /\ fn_output' = [fn_output EXCEPT !.stack = Tail(@)]
    /\ UNCHANGED << pc, fn_input, ssh_hosts, exit_status, exit_by, stderr, history_db, audit >>
    /\ UNCHANGED << connVars, hosts_toml, all_hosts, invocation, pickVars >>

\* parse_ssh_config, lines 14-16: sort, dedup and return.
parse_ssh_config_return ==
    /\ pc = "parse_file"
    /\ fn_output.stack = << >>
    /\ ssh_hosts' = Ok(sorted_strs(Range(fn_output.hosts)))
    /\ pc' = "parsed"
    /\ UNCHANGED << fn_input, fn_output, exit_status, exit_by, stderr, history_db, audit >>
    /\ UNCHANGED << connVars, hosts_toml, all_hosts, invocation, pickVars >>

\* ------------------------------------------------------------------ SpecConfig
\* parse_ssh_config on a file system of two files.

MaxLines == 3

L_Host_a_b == << "H", "o", "s", "t", " ", "a", " ", "b" >>
L_Host_wild == << "H", "o", "s", "t", " ", "*", ".", "x" >>
L_Host_c == << "H", "o", "s", "t", " ", "c" >>
L_host_tab_b == << " ", "h", "o", "s", "t", "\t", "b", "?", " ", "b" >>
L_Host_a_eq_b == << "H", "o", "s", "t", " ", "a", "=", "b" >>
L_Match_all == << "M", "a", "t", "c", "h", " ", "a", "l", "l" >>
L_Include_glob == << "I", "n", "c", "l", "u", "d", "e", " ", "e", "*" >>
L_Host_d == << "H", "o", "s", "t", " ", "d" >>
L_Include_tilde == << "I", "n", "c", "l", "u", "d", "e", " ", "~", "/", ".", "s", "s", "h", "/", "e", "x", "t", "r", "a" >>

ConfigLines ==
    { L_Host_a_b, L_Host_wild, L_Host_c, L_host_tab_b, L_Host_a_eq_b,
      L_Match_all, L_Include_glob }

ConfigFiles ==
    { MissingFile, UnreadableFile }
      \cup { File(ls) : ls \in UNION { [1..n -> ConfigLines] : n \in 0..MaxLines } }

\* The other file: absent, unreadable, declaring a host, or including itself.
ExtraFiles ==
    { MissingFile, UnreadableFile, File(<< L_Host_d >>),
      File(<< L_Host_d, L_Include_tilde >>) }

FileSystems ==
    { [p \in {ConfigPath, ExtraPath} |-> IF p = ConfigPath THEN c ELSE e] :
        c \in ConfigFiles, e \in ExtraFiles }

InitConfig ==
    /\ pc = "parse_ssh_config"
    /\ exit_status = None
    /\ exit_by = ""
    /\ stderr = << >>
    /\ history_db = << >>
    /\ audit = << >>
    /\ host = NoHost
    /\ yes = FALSE
    /\ no_reconnect = FALSE
    /\ stdin = None
    /\ cfg = [reconnect |-> TRUE, reconnect_retries |-> MaxRetries,
              keepalive_interval |-> default_keepalive,
              danger_tags |-> default_danger_tags]
    /\ ssh_args = << >>
    /\ target = << >>
    /\ mode = ""
    /\ client = << >>
    /\ attempt = 0
    /\ spawned = << >>
    /\ delays = 0
    /\ running = 0
    /\ ssh_hosts = Ok(<< >>)
    /\ hosts_toml = [state |-> "missing", hosts |-> << >>]
    /\ all_hosts = Ok(<< >>)
    /\ invocation = NoInvocation
    /\ PickerIdle
    /\ fn_input = [p \in {ConfigPath, ExtraPath} |-> MissingFile]
    /\ fn_output = [stack |-> << >>, hosts |-> << >>]

NextConfig ==
    \/ pc = "parse_ssh_config" /\ \E fs \in FileSystems : parse_ssh_config(fs)
    \/ parse_file_line
    \/ parse_file_return
    \/ parse_ssh_config_return

SpecConfig == InitConfig /\ [][NextConfig]_vars

\* ------------------------------------------------------------------ C20

\* A Host line: the keyword, in any letter case, then whitespace, after the
\* indentation.
IsHostLine(line) ==
    LET t == trim(line)
    IN  Len(t) > 4 /\ to_lowercase(SubSeq(t, 1, 4)) = << "h", "o", "s", "t" >> /\ IsSpace(t[5])

\* The whitespace-separated tokens of a string: its maximal runs without
\* whitespace.
Tokens(s) ==
    { SubSeq(s, ij[1], ij[2]) :
        ij \in { ij \in (1..Len(s)) \X (1..Len(s)) :
                    /\ ij[1] <= ij[2]
                    /\ \A k \in ij[1]..ij[2] : ~IsSpace(s[k])
                    /\ (ij[1] = 1 \/ IsSpace(s[ij[1] - 1]))
                    /\ (ij[2] = Len(s) \/ IsSpace(s[ij[2] + 1])) } }

\* The concrete aliases a file declares: the tokens of its Host lines, after
\* the keyword, that contain neither '*' nor '?'.
DeclaredAliases(lines) ==
    UNION { { w \in Tokens(SubSeq(trim(lines[n]), 5, Len(trim(lines[n])))) :
                ~IsIn(w, "*") /\ ~IsIn(w, "?") } :
            n \in { n \in 1..Len(lines) : IsHostLine(lines[n]) } }

\* The root file is read and no other file exists.
RootOnly ==
    /\ fn_input[ConfigPath].kind = "file"
    /\ fn_input[ExtraPath].kind = "missing"

\* C20: parsing a config returns exactly the tokens of its Host lines that
\* contain neither '*' nor '?', in strictly ascending order.
C20_HostLineAliases ==
    (pc = "parsed" /\ RootOnly) =>
        /\ ssh_hosts.ok
        /\ Range(ssh_hosts.val) = DeclaredAliases(fn_input[ConfigPath].lines)
        /\ \A i \in 1..(Len(ssh_hosts.val) - 1) :
              str_cmp(ssh_hosts.val[i], ssh_hosts.val[i + 1]) < 0

\* The example of the claim: `Host a b`, `Host *.x`, `Host c` gives a, b, c.
C20_Example ==
    /\ pc = "parsed"
    /\ RootOnly
    /\ fn_input[ConfigPath].lines = << L_Host_a_b, L_Host_wild, L_Host_c >>
    /\ ssh_hosts = Ok(<< S_a, << "b" >>, S_c >>)

\* The Host line `Host a=b` read as the keyword `Host a`: nothing is returned.
C20_HostLineLost ==
    /\ pc = "parsed"
    /\ RootOnly
    /\ fn_input[ConfigPath].lines = << L_Host_a_eq_b >>
    /\ ssh_hosts = Ok(<< >>)

\* Without a '=' in any Host line the aliases returned are those declared.
C20_WithoutEquals ==
    (pc = "parsed" /\ RootOnly
        /\ \A n \in 1..Len(fn_input[ConfigPath].lines) :
              IsHostLine(fn_input[ConfigPath].lines[n])
                  => ~IsIn(fn_input[ConfigPath].lines[n], "=")) =>
        /\ ssh_hosts.ok
        /\ Range(ssh_hosts.val) = DeclaredAliases(fn_input[ConfigPath].lines)
        /\ \A i \in 1..(Len(ssh_hosts.val) - 1) :
              str_cmp(ssh_hosts.val[i], ssh_hosts.val[i + 1]) < 0

\* ------------------------------------------------------------------ C21 .. C23

\* A line of a keyword: the keyword, in any letter case, then whitespace,
\* after the indentation.
IsKeywordLine(line, kw) ==
    LET t == trim(line)
    IN  /\ Len(t) > Len(kw)
        /\ to_lowercase(SubSeq(t, 1, Len(kw))) = kw
        /\ IsSpace(t[Len(kw) + 1])
IsMatchLine(line) == IsKeywordLine(line, << "m", "a", "t", "c", "h" >>)
IsIncludeLine(line) == IsKeywordLine(line, << "i", "n", "c", "l", "u", "d", "e" >>)

\* Line n of a file is unconditional: no Match line precedes it, or a Host
\* line stands between the last Match line before it and itself.
Unconditional(lines, n) ==
    \A m \in 1..(n - 1) :
        IsMatchLine(lines[m]) =>
            \E k \in (m + 1)..(n - 1) : IsHostLine(lines[k])

\* The root file is read and the other file declares the one alias d.
RootAndExtra ==
    /\ fn_input[ConfigPath].kind = "file"
    /\ fn_input[ExtraPath] = File(<< L_Host_d >>)

\* C21: an Include line of the root file contributes the aliases of its
\* target iff it is unconditional.
C21_IncludeAfterMatch ==
    (pc = "parsed" /\ RootAndExtra) =>
        LET lines == fn_input[ConfigPath].lines
        IN  IsIn(ssh_hosts.val, << "d" >>) <=>
                \E n \in 1..Len(lines) :
                    IsIncludeLine(lines[n]) /\ Unconditional(lines, n)

\* `Match all`, `Host a=b`, `Include e*`: the Host line is not recognised, the
\* Match flag stays set and the Include is not processed.
C21_FlagNotCleared ==
    /\ pc = "parsed"
    /\ RootAndExtra
    /\ fn_input[ConfigPath].lines = << L_Match_all, L_Host_a_eq_b, L_Include_glob >>
    /\ ~IsIn(ssh_hosts.val, << "d" >>)

\* `Match all`, `Host c`, `Include e*`: the Host line clears the flag.
C21_FlagCleared ==
    /\ pc = "parsed"
    /\ RootAndExtra
    /\ fn_input[ConfigPath].lines = << L_Match_all, L_Host_c, L_Include_glob >>
    /\ ssh_hosts = Ok(<< S_c, << "d" >> >>)

\* No Host line of the root file has a '='.
HostLinesWithoutEquals ==
    \A n \in 1..Len(fn_input[ConfigPath].lines) :
        IsHostLine(fn_input[ConfigPath].lines[n])
            => ~IsIn(fn_input[ConfigPath].lines[n], "=")

\* With no '=' in a Host line, an Include contributes iff it is unconditional.
C21_WithoutEquals ==
    (pc = "parsed" /\ RootAndExtra /\ HostLinesWithoutEquals) =>
        LET lines == fn_input[ConfigPath].lines
        IN  IsIn(ssh_hosts.val, << "d" >>) <=>
                \E n \in 1..Len(lines) :
                    IsIncludeLine(lines[n]) /\ Unconditional(lines, n)

\* The aliases parse_file collects from the lines of one file, leaving its
\* Include lines aside.
ParsedAliases(lines) ==
    UNION { LET trimmed == trim(lines[n])
                kv == IF trimmed = << >> \/ trimmed[1] = "#" THEN None
                      ELSE split_keyword(trimmed)
            IN  IF IsSome(kv) /\ to_lowercase(Unwrap(kv).keyword) = << "h", "o", "s", "t" >>
                THEN Range(host_aliases(Unwrap(kv).value))
                ELSE {} :
            n \in 1..Len(lines) }

C22_WitnessIncluded ==
    /\ pc = "parsed"
    /\ fn_input[ConfigPath].lines = << L_Host_c, L_Include_glob >>
    /\ fn_input[ExtraPath] = File(<< L_Host_d >>)
    /\ ssh_hosts = Ok(<< S_c, << "d" >> >>)
C22_WitnessUnreadableRoot ==
    /\ pc = "parsed"
    /\ fn_input[ConfigPath] = UnreadableFile
    /\ fn_input[ExtraPath] = File(<< L_Host_d >>)
    /\ ssh_hosts = Ok(<< >>)

\* parse_ssh_config runs to its end: a sequential program takes its next step.
SpecConfigFair == SpecConfig /\ WF_vars(NextConfig)

\* The keyword of a line as parse_file reads it, in lower case; empty for a
\* blank line, a comment or a line without a value.
KeywordOf(line) ==
    LET trimmed == trim(line)
        kv == IF trimmed = << >> \/ trimmed[1] = "#" THEN None ELSE split_keyword(trimmed)
    IN  IF IsSome(kv) THEN to_lowercase(Unwrap(kv).keyword) ELSE << >>

\* The file has an Include line that parse_file processes: no Match line
\* before it, or a Host line after the last one.
HasUnconditionalInclude(lines) ==
    \E n \in 1..Len(lines) :
        /\ KeywordOf(lines[n]) = << "i", "n", "c", "l", "u", "d", "e" >>
        /\ \A m \in 1..(n - 1) :
              KeywordOf(lines[m]) = << "m", "a", "t", "c", "h" >> =>
                  \E k \in (m + 1)..(n - 1) : KeywordOf(lines[k]) = << "h", "o", "s", "t" >>

\* A cycle of unconditional includes is reachable from the root file: the root
\* file includes the other file, which includes itself.  (The Include lines of
\* the root file name the other file, those of the other file name itself.)
CycleReachable ==
    /\ fn_input[ConfigPath].kind = "file"
    /\ HasUnconditionalInclude(fn_input[ConfigPath].lines)
    /\ fn_input[ExtraPath].kind = "file"
    /\ HasUnconditionalInclude(fn_input[ExtraPath].lines)

C23_WitnessAcyclic ==
    /\ pc = "parsed"
    /\ HasUnconditionalInclude(fn_input[ConfigPath].lines)
    /\ fn_input[ExtraPath] = File(<< L_Host_d >>)

\* ------------------------------------------------------------------ SpecPicker
\* The sort of run_picker and filter_hosts on lists of items.

MaxItems == 3

S_w == << "w" >>
S_b == << "b" >>
S_d == << "d" >>
S_r == << "r" >>
T_Prod == << "P", "r", "o", "d" >>
T_MyDB == << "M", "y", "D", "B" >>
T_rocket == << Char1F680 >>

\* The items: a host and its recency, as run_picker joins them (lines 33-46).
Item(alias) ==
    CASE alias = S_db -> [host |-> ssh_config_host(S_db), last_connected |-> None]
      [] alias = S_e -> [host |-> ssh_config_host(S_e), last_connected |-> Some(<< "1" >>)]
      [] alias = S_w ->
            [host |-> Host(S_w, Some(<< "x", "d", "b" >>), None, None, None,
                           << T_Prod >>, HostsToml),
             last_connected |-> Some(<< "2" >>)]
      [] alias = S_a ->
            [host |-> Host(S_a, Some(<< "h" >>), Some(S_db), None, None,
                           << S_web, T_MyDB >>, HostsToml),
             last_connected |-> Some(<< "1" >>)]
      [] alias = S_b ->
            [host |-> Host(S_b, Some(<< "h" >>), None, None, None, << S_web >>, HostsToml),
             last_connected |-> None]
      [] alias = S_c ->
            [host |-> Host(S_c, Some(<< "h" >>), None, None, None, << S_web >>, HostsToml),
             last_connected |-> Some(<< "2" >>)]
      [] alias = S_d ->
            [host |-> Host(S_d, Some(<< "h" >>), None, None, None, << S_web >>, HostsToml),
             last_connected |-> None]
      [] alias = S_r ->
            [host |-> Host(S_r, Some(<< "h" >>), None, None, None, << T_rocket >>, HostsToml),
             last_connected |-> None]
ItemAliases == { S_db, S_e, S_w, S_a, S_b, S_c, S_d, S_r }

\* The lists run_picker sorts: list_all_hosts returns them in alias order.
ItemLists ==
    { [i \in 1..Cardinality(A) |-> Item(sorted_strs(A)[i])] :
        A \in { A \in SUBSET ItemAliases : Cardinality(A) <= MaxItems } }

Queries ==
    { << >>, << "#" >>, << "#", "d", "b" >>, << "#", "D", "B" >>, << "d", "b" >>,
      << "D", "B" >>, << "#", "p" >>, << "P" >> }

\* run_picker, lines 48-62.
call_sort_picker_hosts ==
    /\ pc = "picker_fn"
    /\ fn_output.picker_hosts = None
    /\ fn_output' = [fn_output EXCEPT !.picker_hosts = Some(sort_picker_hosts(fn_input.hosts))]
    /\ UNCHANGED << fn_input, procVars, connVars, resVars, pickVars >>

\* filter_hosts on the sorted items.
call_filter_hosts ==
    /\ pc = "picker_fn"
    /\ IsSome(fn_output.picker_hosts)
    /\ fn_output.filtered = None
    /\ fn_output' =
          [fn_output EXCEPT
              !.filtered = Some(filter_hosts(Unwrap(fn_output.picker_hosts), fn_input.query))]
    /\ UNCHANGED << fn_input, procVars, connVars, resVars, pickVars >>

\* run_picker_loop, lines 118-127: draw_host_list on the kept items, for a
\* selection among them, a scroll offset and the height of the list's area.
call_draw_host_list ==
    /\ pc = "picker_fn"
    /\ IsSome(fn_output.filtered)
    /\ fn_output.frame = None
    /\ \E sel \in 0..(MaxItems - 1), offset \in 0..MaxItems, area_height \in 1..MaxHeight :
        /\ sel = clamp_selected(sel, Len(Unwrap(fn_output.filtered)))
        /\ (Unwrap(fn_output.filtered) = << >> => sel = 0)
        /\ fn_output' =
              [fn_output EXCEPT
                  !.frame = Some([selected |-> sel, scroll_offset |-> offset,
                                  area_height |-> area_height,
                                  drawn |-> draw_host_list(Unwrap(fn_output.picker_hosts),
                                                Unwrap(fn_output.filtered), sel, offset,
                                                area_height)])]
    /\ UNCHANGED << fn_input, procVars, connVars, resVars, pickVars >>

InitPicker ==
    /\ pc = "picker_fn"
    /\ exit_status = None
    /\ exit_by = ""
    /\ stderr = << >>
    /\ history_db = << >>
    /\ audit = << >>
    /\ host = NoHost
    /\ yes = FALSE
    /\ no_reconnect = FALSE
    /\ stdin = None
    /\ cfg = [reconnect |-> TRUE, reconnect_retries |-> MaxRetries,
              keepalive_interval |-> default_keepalive,
              danger_tags |-> default_danger_tags]
    /\ ssh_args = << >>
    /\ target = << >>
    /\ mode = ""
    /\ client = << >>
    /\ attempt = 0
    /\ spawned = << >>
    /\ delays = 0
    /\ running = 0
    /\ ssh_hosts = Ok(<< >>)
    /\ hosts_toml = [state |-> "missing", hosts |-> << >>]
    /\ all_hosts = Ok(<< >>)
    /\ invocation = NoInvocation
    /\ PickerIdle
    /\ fn_input \in [hosts : ItemLists, query : Queries]
    /\ fn_output = [picker_hosts |-> None, filtered |-> None, frame |-> None]

NextPicker ==
    \/ call_sort_picker_hosts
    \/ call_filter_hosts
    \/ call_draw_host_list

SpecPicker == InitPicker /\ [][NextPicker]_vars

\* ------------------------------------------------------------------ C24 .. C26

\* s contains t without regard to letter case: some window of s equals t up
\* to the case of its letters.
ContainsIgnoreCase(s, t) ==
    \E k \in 0..(Len(s) - Len(t)) :
        \A j \in 1..Len(t) : to_lowercase_char(s[k + j]) = to_lowercase_char(t[j])

HasTagContaining(h, t) == \E n \in 1..Len(h.tags) : ContainsIgnoreCase(h.tags[n], t)

\* A sequence of indices of the items in ascending order, without repetition.
InItemOrder(f, n) ==
    /\ \A k \in 1..Len(f) : f[k] \in 1..n
    /\ \A k \in 1..(Len(f) - 1) : f[k] < f[k + 1]

\* C24: for a query '#' t, filter_hosts returns, in the order of the items,
\* exactly the items with a tag that contains t without regard to case.
C24_TagQuery ==
    (IsSome(fn_output.filtered) /\ fn_input.query # << >> /\ fn_input.query[1] = "#") =>
        LET items == Unwrap(fn_output.picker_hosts)
            f == Unwrap(fn_output.filtered)
        IN  /\ InItemOrder(f, Len(items))
            /\ Range(f) = { i \in 1..Len(items) :
                              HasTagContaining(items[i].host, Tail(fn_input.query)) }

\* C24 witness: `#DB` keeps the item tagged MyDB and not the item whose alias
\* is db.
C24_Witness ==
    /\ IsSome(fn_output.filtered)
    /\ fn_input.query = << "#", "D", "B" >>
    /\ \E i \in 1..Len(Unwrap(fn_output.picker_hosts)) :
          /\ Unwrap(fn_output.picker_hosts)[i].host.alias = S_a
          /\ Unwrap(fn_output.filtered) = << i >>
    /\ \E i \in 1..Len(Unwrap(fn_output.picker_hosts)) :
          Unwrap(fn_output.picker_hosts)[i].host.alias = S_db

\* The fields a query without '#' is matched against.
Fields(h) ==
    {h.alias} \cup Range(h.hostname) \cup Range(h.user) \cup Range(h.tags)

\* C25: the empty query keeps every item; a query that does not begin with
\* '#' keeps, in the order of the items, exactly the items with a field that
\* contains it without regard to case.
C25_FieldQuery ==
    (IsSome(fn_output.filtered) /\ (fn_input.query = << >> \/ fn_input.query[1] # "#")) =>
        LET items == Unwrap(fn_output.picker_hosts)
            f == Unwrap(fn_output.filtered)
        IN  /\ InItemOrder(f, Len(items))
            /\ fn_input.query = << >> => Range(f) = 1..Len(items)
            /\ Range(f) = { i \in 1..Len(items) :
                              \E field \in Fields(items[i].host) :
                                  ContainsIgnoreCase(field, fn_input.query) }

\* C25 witness: `P` keeps the item tagged Prod, and only it.
C25_Witness ==
    /\ IsSome(fn_output.filtered)
    /\ fn_input.query = << "P" >>
    /\ Len(Unwrap(fn_output.picker_hosts)) = MaxItems
    /\ \E i \in 1..Len(Unwrap(fn_output.picker_hosts)) :
          /\ Unwrap(fn_output.picker_hosts)[i].host.alias = S_w
          /\ Unwrap(fn_output.filtered) = << i >>

\* C25, the other case reached: the empty query keeps all the items.
C25_WitnessEmptyQuery ==
    /\ IsSome(fn_output.filtered)
    /\ fn_input.query = << >>
    /\ Unwrap(fn_output.filtered) = [i \in 1..MaxItems |-> i]

\* The items of a list belong to one group: the same first tag, or no tag.
SameGroup(a, b) ==
    \/ a.host.tags = << >> /\ b.host.tags = << >>
    \/ a.host.tags # << >> /\ b.host.tags # << >> /\ a.host.tags[1] = b.host.tags[1]

\* a may stand before b in the picker: tagged before untagged, the groups in
\* ascending order of the first tag; in a group the items with a timestamp
\* first, the most recent first, then the others in ascending alias order.
MayPrecede(a, b) ==
    IF SameGroup(a, b)
    THEN IF IsSome(a.last_connected) /\ IsSome(b.last_connected)
         THEN str_cmp(Unwrap(a.last_connected), Unwrap(b.last_connected)) >= 0
         ELSE IF IsSome(a.last_connected) \/ IsSome(b.last_connected)
         THEN IsSome(a.last_connected)
         ELSE str_cmp(a.host.alias, b.host.alias) < 0
    ELSE IF a.host.tags = << >> THEN FALSE
    ELSE IF b.host.tags = << >> THEN TRUE
    ELSE str_cmp(a.host.tags[1], b.host.tags[1]) < 0

\* C26: the picker's items are the items given, in the order of groups,
\* recency and alias.
C26_PickerOrder ==
    IsSome(fn_output.picker_hosts) =>
        LET items == Unwrap(fn_output.picker_hosts)
        IN  /\ Range(items) = Range(fn_input.hosts)
            /\ Len(items) = Len(fn_input.hosts)
            /\ \A i \in 1..Len(items), j \in 1..Len(items) :
                  i < j => MayPrecede(items[i], items[j])

\* An untagged item stands before the item whose first tag begins with
\* U+1F680: the group key U+FFFF of the untagged items is the lesser string.
C26_UntaggedBeforeTagged ==
    /\ IsSome(fn_output.picker_hosts)
    /\ Len(Unwrap(fn_output.picker_hosts)) = 2
    /\ Unwrap(fn_output.picker_hosts)[1].host.alias = S_db
    /\ Unwrap(fn_output.picker_hosts)[2].host.alias = S_r

\* Three items of the group web: c (timestamp 2), a (timestamp 1), then b.
C26_GroupOrder ==
    /\ IsSome(fn_output.picker_hosts)
    /\ Len(Unwrap(fn_output.picker_hosts)) = 3
    /\ Unwrap(fn_output.picker_hosts)[1].host.alias = S_c
    /\ Unwrap(fn_output.picker_hosts)[2].host.alias = S_a
    /\ Unwrap(fn_output.picker_hosts)[3].host.alias = S_b

\* With every first tag below U+FFFF the order is the order of C26.
C26_TagsBelowFFFF ==
    (IsSome(fn_output.picker_hosts)
        /\ \A i \in 1..Len(fn_input.hosts) :
              fn_input.hosts[i].host.tags # << >> =>
                  str_cmp(fn_input.hosts[i].host.tags[1], << CharFFFF >>) < 0) =>
        LET items == Unwrap(fn_output.picker_hosts)
        IN  /\ Range(items) = Range(fn_input.hosts)
            /\ Len(items) = Len(fn_input.hosts)
            /\ \A i \in 1..Len(items), j \in 1..Len(items) :
                  i < j => MayPrecede(items[i], items[j])

\* ------------------------------------------------------------------ SpecBuild
\* build_ssh_args on a resolved host, and the vector read back.

T_dash_v == << "-", "v" >>
T_h_x == << "h", ".", "x" >>
T_k == << "k" >>
T_u == << "u" >>

\* The hosts list_all_hosts can return for one alias: the host of the ssh
\* config, or a host of hosts.toml with its hostname.
BuildHosts ==
    { ssh_config_host(S_a) } \cup
    { hosts_toml_host(S_a, HostEntry(hostname, user, port, identity_file, << >>)) :
        hostname \in { T_h, T_h_x, T_dash_v },
        user \in { None, Some(T_u) },
        port \in { None, Some(22), Some(65535) },
        identity_file \in { None, Some(T_k), Some(S_p) } }

\* connect_to_host, line 110.
call_build_ssh_args ==
    /\ pc = "build"
    /\ fn_output.args = None
    /\ fn_output' = [fn_output EXCEPT !.args = Some(build_ssh_args(fn_input.host))]
    /\ UNCHANGED << fn_input, procVars, connVars, resVars, pickVars >>

\* The classifier of ssh.rs on the vector built.
call_extract_built ==
    /\ pc = "build"
    /\ IsSome(fn_output.args)
    /\ fn_output.extracted = None
    /\ fn_output' = [fn_output EXCEPT !.extracted = Some(Extracts(Unwrap(fn_output.args)))]
    /\ UNCHANGED << fn_input, procVars, connVars, resVars, pickVars >>

InitBuild ==
    /\ pc = "build"
    /\ exit_status = None
    /\ exit_by = ""
    /\ stderr = << >>
    /\ history_db = << >>
    /\ audit = << >>
    /\ host = NoHost
    /\ yes = FALSE
    /\ no_reconnect = FALSE
    /\ stdin = None
    /\ cfg = [reconnect |-> TRUE, reconnect_retries |-> MaxRetries,
              keepalive_interval |-> default_keepalive,
              danger_tags |-> default_danger_tags]
    /\ ssh_args = << >>
    /\ target = << >>
    /\ mode = ""
    /\ client = << >>
    /\ attempt = 0
    /\ spawned = << >>
    /\ delays = 0
    /\ running = 0
    /\ ssh_hosts = Ok(<< >>)
    /\ hosts_toml = [state |-> "missing", hosts |-> << >>]
    /\ all_hosts = Ok(<< >>)
    /\ invocation = NoInvocation
    /\ PickerIdle
    /\ fn_input \in [host : BuildHosts]
    /\ fn_output = [args |-> None, extracted |-> None]

NextBuild ==
    \/ call_build_ssh_args
    \/ call_extract_built

SpecBuild == InitBuild /\ [][NextBuild]_vars

\* ------------------------------------------------------------------ C27

\* The target of a host: user@hostname, the hostname, or the alias.
TargetOf(h) ==
    IF h.hostname = None THEN h.alias
    ELSE IF h.user = None THEN h.hostname[1]
    ELSE h.user[1] \o << "@" >> \o h.hostname[1]

\* The vector of a host: the target, then -p and the port in decimal, then -i
\* and the identity file.
VectorOf(h) ==
    << TargetOf(h) >>
      \o (IF h.port = None THEN << >>
          ELSE << S_p, IF h.port[1] = 22 THEN T_22 ELSE << "6", "5", "5", "3", "5" >> >>)
      \o (IF h.identity_file = None THEN << >> ELSE << S_i, h.identity_file[1] >>)

\* C27: build_ssh_args gives the vector of the host, and the classifier reads
\* the target, the port and the identity file of the host back from it.
C27_BuildRoundTrip ==
    /\ IsSome(fn_output.args) => Unwrap(fn_output.args) = VectorOf(fn_input.host)
    /\ IsSome(fn_output.extracted) =>
          /\ Unwrap(fn_output.extracted).target_full = Some(TargetOf(fn_input.host))
          /\ Unwrap(fn_output.extracted).port = fn_input.host.port
          /\ Unwrap(fn_output.extracted).identity_file = fn_input.host.identity_file

\* The hostname -v alone: the vector is [-v] and no target is read back.
C27_TargetSkipped ==
    /\ IsSome(fn_output.extracted)
    /\ Unwrap(fn_output.args) = << T_dash_v >>
    /\ Unwrap(fn_output.extracted).target_full = None

\* user@hostname with port and identity file, read back as built.
C27_RoundTrip ==
    /\ IsSome(fn_output.extracted)
    /\ Unwrap(fn_output.args) = << T_u \o << "@" >> \o T_h_x, S_p, T_22, S_i, T_k >>
    /\ Unwrap(fn_output.extracted).target_full = Some(T_u \o << "@" >> \o T_h_x)
    /\ Unwrap(fn_output.extracted).port = Some(22)
    /\ Unwrap(fn_output.extracted).identity_file = Some(T_k)

\* With a target that does not begin with '-' the vector reads back.
C27_TargetNotOption ==
    TargetOf(fn_input.host)[1] # "-" => C27_BuildRoundTrip

\* ------------------------------------------------------------------ C28, C29

\* The exit code of the last client process started.
FinalExitCode == unwrap_or(status_code(client[Len(spawned)]), 1)

\* The session is over: the last attempt has ended and the process has exited
\* with its code, from connect_to_host or from inside run_with_reconnect.
SessionOver ==
    /\ pc = "exited"
    /\ exit_by \in {"connect_to_host", "run_with_reconnect"}

\* C28: for every connection session, with or without reconnect, once the
\* final attempt has ended and the program has exited, the audit log holds an
\* entry of the session with the alias, the target and the final attempt's
\* exit code.
C28_SessionAudited ==
    SessionOver =>
        /\ audit # << >>
        /\ audit[Len(audit)] =
              [alias |-> host.alias, target |-> target, exit_code |-> FinalExitCode]

\* With reconnect the process has exited with the client's code and audit.log
\* is as it was.
C28_ReconnectNotLogged ==
    /\ SessionOver
    /\ mode = "reconnect" /\ exit_by = "run_with_reconnect"
    /\ exit_status = Some(FinalExitCode)
    /\ audit = << >>

\* Without reconnect the entry is written before the exit.
C28_DirectLogged ==
    /\ SessionOver
    /\ mode = "direct" /\ exit_by = "connect_to_host"
    /\ audit = << [alias |-> host.alias, target |-> target, exit_code |-> FinalExitCode] >>
    /\ exit_status = Some(FinalExitCode)

\* What holds: a session under run_with_reconnect never reaches log_session,
\* whatever the client does; only the direct path writes an entry, and it is the
\* one of the session.
C28_OnlyDirectLogs ==
    /\ mode = "reconnect" => audit = << >>
    /\ audit # << >> =>
          /\ SessionOver /\ mode = "direct"
          /\ audit = << [alias |-> host.alias, target |-> target, exit_code |-> FinalExitCode] >>

\* C29: at most one client process exists at any time, one exists exactly
\* while Command::status() waits for it, and a client process is started only
\* when none is running: the first straight away, every later one after the
\* previous one has exited and one delay per retry has been slept.
C29_OneClientAtATime ==
    /\ [](/\ running \in {0, 1}
          /\ running = 1 <=> pc \in {"reconnect_wait", "ssh_wait"})
    /\ [][spawned' # spawned =>
              /\ running = 0 /\ running' = 1
              /\ Len(spawned') = Len(spawned) + 1
              /\ Len(spawned) = attempt
              /\ delays = Len(spawned)]_vars

\* A second attempt runs: the first has exited and one delay has been slept.
C29_Witness ==
    /\ mode = "reconnect" /\ pc = "reconnect_wait"
    /\ Len(spawned) = 2 /\ client[1] = Exited(255)
    /\ running = 1 /\ delays = 1

\* The direct path: one client process, no retry.
C29_WitnessDirect ==
    /\ mode = "direct" /\ pc = "ssh_wait"
    /\ Len(spawned) = 1 /\ running = 1 /\ delays = 0

\* ------------------------------------------------------------------ update_check.rs

\* str::splitn(n, sep): at most n pieces, the last one holding the rest.
RECURSIVE splitn(_, _, _)
splitn(str, n, sep) ==
    IF n = 1 \/ find(str, sep) = 0 THEN << str >>
    ELSE << SubSeq(str, 1, find(str, sep) - 1) >>
         \o splitn(SubSeq(str, find(str, sep) + 1, Len(str)), n - 1, sep)

\* str::split(['-', '+']).next(): the piece before the first '-' or '+'.
before_prerelease(str) ==
    IF \A i \in 1..Len(str) : str[i] \notin {"-", "+"} THEN str
    ELSE SubSeq(str, 1, (CHOOSE i \in 1..Len(str) :
                            /\ str[i] \in {"-", "+"}
                            /\ \A j \in 1..(i - 1) : str[j] \notin {"-", "+"}) - 1)

\* The decimal digits of u32::MAX, 4294967295.
U32MaxDigits == << "4", "2", "9", "4", "9", "6", "7", "2", "9", "5" >>

\* The digits without their leading zeros.
RECURSIVE significant(_)
significant(digits) ==
    IF digits # << >> /\ digits[1] = "0" THEN significant(Tail(digits)) ELSE digits

\* The number of the digits is above u32::MAX.
exceeds_u32(digits) ==
    LET sig == significant(digits)
    IN  \/ Len(sig) > Len(U32MaxDigits)
        \/ /\ Len(sig) = Len(U32MaxDigits)
           /\ \E i \in 1..Len(sig) :
                 /\ IndexOf(Digits, sig[i]) > IndexOf(Digits, U32MaxDigits[i])
                 /\ \A j \in 1..(i - 1) : sig[j] = U32MaxDigits[j]

\* str::parse::<u32>().ok(): decimal digits after an optional '+', at most
\* u32::MAX; anything else is no value.
parse_u32(str) ==
    LET body == IF str # << >> /\ str[1] = "+" THEN Tail(str) ELSE str
    IN  IF body = << >> \/ \E i \in 1..Len(body) : ~IsIn(Digits, body[i]) THEN None
        ELSE IF exceeds_u32(body) THEN None
        ELSE Some(digits_value(body))

\* is_newer, the closure parse (lines 134-146): the first three of at most four
\* pieces between dots, the third cut at its pre-release or build suffix.
parse_version(str) ==
    LET it == splitn(str, 4, ".")
    IN  IF Len(it) < 3 THEN None
        ELSE LET major == parse_u32(it[1])
                 minor == parse_u32(it[2])
                 patch == parse_u32(before_prerelease(it[3]))
             IN  IF major = None \/ minor = None \/ patch = None THEN None
                 ELSE Some(<< Unwrap(major), Unwrap(minor), Unwrap(patch) >>)

\* A slip of line 147: l >= c.
version_ge(l, c) ==
    \A i \in 1..3 : (\A j \in 1..(i - 1) : l[j] = c[j]) => l[i] >= c[i]

\* Line 147, l > c on tuples: greater at the first component that differs.
version_gt(l, c) ==
    \E i \in 1..3 : l[i] > c[i] /\ \A j \in 1..(i - 1) : l[j] = c[j]

\* is_newer(latest, current).
is_newer(latest, current) ==
    /\ IsSome(parse_version(latest))
    /\ IsSome(parse_version(current))
    /\ version_gt(Unwrap(parse_version(latest)), Unwrap(parse_version(current)))

\* ------------------------------------------------------------------ SpecVersion

\* The numbers of a version: zero, one digit, two digits.
MaxPart == 10
Parts == {0, 9, MaxPart}
Triples == Parts \X Parts \X Parts

\* What may follow the patch number: nothing, a pre-release, build metadata, a
\* fourth number.
Suffixes ==
    { << >>, << "-", "b", "e", "t", "a", ".", "1" >>, << "+", "b" >>, << ".", "4" >> }

\* The ways a number is written: plain, with a sign, with a leading zero. The
\* patch number takes no sign, a '+' starts the build metadata.
Renderings(n) == { to_string(n), << "+" >> \o to_string(n), << "0" >> \o to_string(n) }
PatchRenderings(n) == { to_string(n), << "0" >> \o to_string(n) }

\* major.minor.patch, plainly written, with each suffix.
PlainVersions ==
    { to_string(t[1]) \o << "." >> \o to_string(t[2]) \o << "." >> \o to_string(t[3]) \o suf :
        t \in Triples, suf \in Suffixes }

\* Versions written with a sign or a leading zero.
OddVersions ==
    { << "+", "9", ".", "0", ".", "0" >>, << "0", "9", ".", "0", ".", "0" >>,
      << "9", ".", "+", "0", ".", "0", "9" >> }

\* Strings that are no major.minor.patch.
Malformed ==
    { << >>, << "9" >>, << "9", ".", "0" >>, << "9", ".", "0", "." >>,
      << "v", "9", ".", "0", ".", "0" >>, << "9", ".", "x", ".", "0" >>,
      << "9", ".", "0", ".", "x" >>, << "9", ".", "0", ".", "-", "1" >>,
      << "9", ".", "0", ".", "+", "9" >>, << "-", "9", ".", "0", ".", "0" >>,
      << "9", ".", ".", "0" >>, << "9", ".", "0", ".", "0", " " >>,
      << "9", ".", "0", "." >> \o U32MaxDigits \o << "0" >>,
      << "9", ".", "0", ".", "4", "2", "9", "4", "9", "6", "7", "2", "9", "6" >> }

VersionStrings == PlainVersions \cup OddVersions \cup Malformed

\* update_check.rs, lines 25 and 72.
call_is_newer ==
    /\ pc = "is_newer"
    /\ fn_output' = [newer |-> Some(is_newer(fn_input.latest, fn_input.current))]
    /\ pc' = "returned"
    /\ UNCHANGED << exit_status, exit_by, stderr, history_db, audit >>
    /\ UNCHANGED << fn_input, connVars, resVars, pickVars >>

InitVersion ==
    /\ pc = "is_newer"
    /\ exit_status = None
    /\ exit_by = ""
    /\ stderr = << >>
    /\ history_db = << >>
    /\ audit = << >>
    /\ host = NoHost
    /\ yes = FALSE
    /\ no_reconnect = FALSE
    /\ stdin = None
    /\ cfg = [reconnect |-> TRUE, reconnect_retries |-> MaxRetries,
              keepalive_interval |-> default_keepalive,
              danger_tags |-> default_danger_tags]
    /\ ssh_args = << >>
    /\ target = << >>
    /\ mode = ""
    /\ client = << >>
    /\ attempt = 0
    /\ spawned = << >>
    /\ delays = 0
    /\ running = 0
    /\ ssh_hosts = Ok(<< >>)
    /\ hosts_toml = [state |-> "missing", hosts |-> << >>]
    /\ all_hosts = Ok(<< >>)
    /\ invocation = NoInvocation
    /\ PickerIdle
    /\ fn_input \in [latest : VersionStrings, current : VersionStrings]
    /\ fn_output = [newer |-> None]

NextVersion == call_is_newer

SpecVersion == InitVersion /\ [][NextVersion]_vars

\* ------------------------------------------------------------------ C30

\* The string is major.minor.patch of the triple, in one of its writings, with
\* or without a suffix.
Reads(str, t) ==
    \E r1 \in Renderings(t[1]), r2 \in Renderings(t[2]), r3 \in PatchRenderings(t[3]),
       suf \in Suffixes :
        str = r1 \o << "." >> \o r2 \o << "." >> \o r3 \o suf

\* The triples each string reads as: one, or none.
ReadingsOf == [str \in VersionStrings |-> { t \in Triples : Reads(str, t) }]

LexGreater(l, c) ==
    \/ l[1] > c[1]
    \/ l[1] = c[1] /\ l[2] > c[2]
    \/ l[1] = c[1] /\ l[2] = c[2] /\ l[3] > c[3]

\* C30: is_newer(latest, current) is true exactly when both strings read as
\* major.minor.patch and latest's triple is lexicographically greater than
\* current's; it is false for equal versions, for an older latest, and
\* whenever one of the strings does not read as a version.
C30_IsNewer ==
    IsSome(fn_output.newer) =>
        LET newer == Unwrap(fn_output.newer)
            ls == ReadingsOf[fn_input.latest]
            cs == ReadingsOf[fn_input.current]
        IN  /\ newer <=> \E l \in ls, c \in cs : LexGreater(l, c)
            /\ (ls = {} \/ cs = {}) => ~newer
            /\ (ls # {} /\ ls = cs) => ~newer
            /\ (\E l \in ls, c \in cs : LexGreater(c, l)) => ~newer
            /\ Cardinality(ls) <= 1 /\ Cardinality(cs) <= 1

\* 0.10.0 is newer than 0.9.0: the numbers are compared, not their digits.
C30_Witness ==
    /\ fn_input.latest = << "0", ".", "1", "0", ".", "0" >>
    /\ fn_input.current = << "0", ".", "9", ".", "0" >>
    /\ fn_output.newer = Some(TRUE)

\* Equal triples, the pre-release suffix aside: not newer.
C30_WitnessEqual ==
    /\ fn_input.latest = << "9", ".", "0", ".", "0" >>
    /\ fn_input.current = << "9", ".", "0", ".", "0", "-", "b", "e", "t", "a", ".", "1" >>
    /\ fn_output.newer = Some(FALSE)

\* A patch number above u32::MAX does not parse: not newer.
C30_WitnessUnparsed ==
    /\ fn_input.latest = << "9", ".", "0", ".", "4", "2", "9", "4", "9", "6", "7", "2", "9", "6" >>
    /\ fn_input.current = << "0", ".", "0", ".", "0" >>
    /\ fn_output.newer = Some(FALSE)

\* ------------------------------------------------------------------ SpecKeyword

\* Lines of a configuration file, each put together from a keyword, what
\* separates it from its value, and the value.
LineKeywords ==
    { << "H", "o", "s", "t" >>, << "h", "o", "s", "t" >>, << "M", "a", "t", "c", "h" >>,
      << "I", "n", "c", "l", "u", "d", "e" >>, << "P", "o", "r", "t" >> }
LineSeparators == { << " " >>, << "=" >>, << " ", "=", " " >>, << "\t" >>, << " ", " " >> }
LineValues ==
    { << "a" >>, << "a", "=", "b" >>, << "a", " ", "b" >>, << "x", " ", "y", "=", "z" >>,
      << "e", "*" >> }
LineIndents == { << >>, << " " >> }
LineOf(parts) == parts.indent \o parts.keyword \o parts.sep \o parts.value

\* parse_file, lines 28-40, on one line.
call_directive ==
    /\ pc = "directive"
    /\ fn_output' = [directive |-> directive(LineOf(fn_input))]
    /\ pc' = "returned"
    /\ UNCHANGED << exit_status, exit_by, stderr, history_db, audit >>
    /\ UNCHANGED << fn_input, connVars, resVars, pickVars >>

InitKeyword ==
    /\ pc = "directive"
    /\ exit_status = None
    /\ exit_by = ""
    /\ stderr = << >>
    /\ history_db = << >>
    /\ audit = << >>
    /\ host = NoHost
    /\ yes = FALSE
    /\ no_reconnect = FALSE
    /\ stdin = None
    /\ cfg = [reconnect |-> TRUE, reconnect_retries |-> MaxRetries,
              keepalive_interval |-> default_keepalive,
              danger_tags |-> default_danger_tags]
    /\ ssh_args = << >>
    /\ target = << >>
    /\ mode = ""
    /\ client = << >>
    /\ attempt = 0
    /\ spawned = << >>
    /\ delays = 0
    /\ running = 0
    /\ ssh_hosts = Ok(<< >>)
    /\ hosts_toml = [state |-> "missing", hosts |-> << >>]
    /\ all_hosts = Ok(<< >>)
    /\ invocation = NoInvocation
    /\ PickerIdle
    /\ fn_input \in [keyword : LineKeywords, sep : LineSeparators,
                     value : LineValues, indent : LineIndents]
    /\ fn_output = [directive |-> None]

NextKeyword == call_directive

SpecKeyword == InitKeyword /\ [][NextKeyword]_vars

\* ------------------------------------------------------------------ C31

\* C31: a line made of a keyword, whitespace or '=' and a value is recognised
\* as the directive of that keyword, lower-cased, whatever the value holds, and
\* with the value given after the separator.
C31_LeadingKeyword ==
    pc = "returned" =>
        /\ IsSome(fn_output.directive)
        /\ Unwrap(fn_output.directive).kw_lower = to_lowercase(fn_input.keyword)
        /\ Unwrap(fn_output.directive).value = fn_input.value

\* `Host a=b` is read as the keyword `host a` with the value b.
C31_KeywordWithValue ==
    /\ pc = "returned"
    /\ LineOf(fn_input) = << "H", "o", "s", "t", " ", "a", "=", "b" >>
    /\ fn_output.directive =
          Some([kw_lower |-> << "h", "o", "s", "t", " ", "a" >>, value |-> << "b" >>])

\* `Host=a=b` is read as the keyword host with the value a=b.
C31_KeyEqualsValue ==
    /\ pc = "returned"
    /\ LineOf(fn_input) = << "H", "o", "s", "t", "=", "a", "=", "b" >>
    /\ fn_output.directive =
          Some([kw_lower |-> << "h", "o", "s", "t" >>, value |-> << "a", "=", "b" >>])

\* What holds: the keyword is the leading token when the separator has a '='
\* or the value has none.
C31_FirstEquals ==
    (IsIn(fn_input.sep, "=") \/ ~IsIn(fn_input.value, "=")) => C31_LeadingKeyword

\* ------------------------------------------------------------------ SpecInclude
\* parse_ssh_config on files in three directories, and process_include on one
\* pattern.

SubOnePath == join(Home, << ".", "s", "s", "h", "/", "s", "u", "b", "/", "o", "n", "e" >>)
SubTwoPath == join(Home, << ".", "s", "s", "h", "/", "s", "u", "b", "/", "t", "w", "o" >>)
RootTwoPath == join(Home, << ".", "s", "s", "h", "/", "t", "w", "o" >>)
HomeTwoPath == join(Home, << "t", "w", "o" >>)
IncludePaths == { ConfigPath, SubOnePath, SubTwoPath, RootTwoPath, HomeTwoPath }

P_sub_one == << "s", "u", "b", "/", "o", "n", "e" >>
P_two == << "t", "w", "o" >>
P_tilde_two == << "~", "/", "t", "w", "o" >>
P_tilde == << "~" >>
P_tilde_x == << "~", "x" >>
IncludeLine(pattern) == << "I", "n", "c", "l", "u", "d", "e", " " >> \o pattern
L_Host_o == << "H", "o", "s", "t", " ", "o" >>
L_Host_s == << "H", "o", "s", "t", " ", "s" >>
L_Host_r == << "H", "o", "s", "t", " ", "r" >>
L_Host_t == << "H", "o", "s", "t", " ", "t" >>

\* The lines of the root file.
RootLines ==
    { IncludeLine(P_sub_one), IncludeLine(P_two), IncludeLine(P_tilde_two),
      IncludeLine(SubTwoPath), L_Match_all, L_Host_c }
RootFiles ==
    { MissingFile } \cup { File(ls) : ls \in UNION { [1..n -> RootLines] : n \in 0..MaxLines } }

\* sub/one: absent, or including by a relative and a home pattern, or with a
\* Match line before or after its own lines.
SubOneFiles ==
    { MissingFile, File(<< IncludeLine(P_two) >>), File(<< L_Host_o, L_Match_all >>),
      File(<< L_Match_all, IncludeLine(P_two) >>),
      File(<< IncludeLine(P_tilde_two), IncludeLine(P_two) >>) }

IncludeFileSystems ==
    { [p \in IncludePaths |->
          IF p = ConfigPath THEN c
          ELSE IF p = SubOnePath THEN o
          ELSE IF p = SubTwoPath THEN File(<< L_Host_s >>)
          ELSE IF p = RootTwoPath THEN File(<< L_Host_r >>)
          ELSE File(<< L_Host_t >>)] :
        c \in RootFiles, o \in SubOneFiles }

IncludePatterns == { P_sub_one, P_two, P_tilde_two, P_tilde, P_tilde_x, SubTwoPath }

\* process_include, lines 86-94, on one pattern of one file.
call_include_base ==
    /\ pc = "process_include"
    /\ fn_output' = [base |-> Some(include_base(fn_input.pattern, Home, fn_input.config_path))]
    /\ pc' = "globbed"
    /\ UNCHANGED << exit_status, exit_by, stderr, history_db, audit >>
    /\ UNCHANGED << fn_input, connVars, resVars, pickVars >>

InitInclude ==
    /\ exit_status = None
    /\ exit_by = ""
    /\ stderr = << >>
    /\ history_db = << >>
    /\ audit = << >>
    /\ host = NoHost
    /\ yes = FALSE
    /\ no_reconnect = FALSE
    /\ stdin = None
    /\ cfg = [reconnect |-> TRUE, reconnect_retries |-> MaxRetries,
              keepalive_interval |-> default_keepalive,
              danger_tags |-> default_danger_tags]
    /\ ssh_args = << >>
    /\ target = << >>
    /\ mode = ""
    /\ client = << >>
    /\ attempt = 0
    /\ spawned = << >>
    /\ delays = 0
    /\ running = 0
    /\ ssh_hosts = Ok(<< >>)
    /\ hosts_toml = [state |-> "missing", hosts |-> << >>]
    /\ all_hosts = Ok(<< >>)
    /\ invocation = NoInvocation
    /\ PickerIdle
    /\ \/ /\ pc = "parse_ssh_config"
          /\ fn_input = [p \in IncludePaths |-> MissingFile]
          /\ fn_output = [stack |-> << >>, hosts |-> << >>]
       \/ /\ pc = "process_include"
          /\ fn_input \in [pattern : IncludePatterns,
                           config_path : { ConfigPath, SubOnePath, HomeTwoPath }]
          /\ fn_output = [base |-> None]

NextInclude ==
    \/ pc = "parse_ssh_config" /\ \E fs \in IncludeFileSystems : parse_ssh_config(fs)
    \/ parse_file_line
    \/ parse_file_return
    \/ parse_ssh_config_return
    \/ call_include_base

SpecInclude == InitInclude /\ [][NextInclude]_vars

\* ------------------------------------------------------------------ C32

\* The directory of a file: its path up to the last '/'.
DirOf(path) ==
    SubSeq(path, 1, (CHOOSE i \in 1..Len(path) :
                        path[i] = "/" /\ \A j \in (i + 1)..Len(path) : path[j] # "/") - 1)

\* Where an Include pattern of a file points: the home directory for `~`, below
\* it for `~/...`, itself when absolute, else below the directory of the file.
Resolve(pattern, including) ==
    IF pattern = << "~" >> THEN Home
    ELSE IF Len(pattern) >= 2 /\ SubSeq(pattern, 1, 2) = << "~", "/" >>
    THEN Home \o << "/" >> \o SubSeq(pattern, 3, Len(pattern))
    ELSE IF pattern[1] = "/" THEN pattern
    ELSE DirOf(including) \o << "/" >> \o pattern

\* The pattern of an Include line.
PatternOf(line) == SubSeq(line, Len(IncludeLine(<< >>)) + 1, Len(line))

\* The parse is under way or over.
Parsing == pc \in {"parse_file", "parsed", "exhausted"}

C32_WitnessHome ==
    /\ pc = "globbed"
    /\ fn_input = [pattern |-> P_tilde, config_path |-> SubOnePath]
    /\ fn_output.base = Some(Home)

\* The root includes sub/one and sub/one includes ~/two and two: the hosts of
\* the home file and of sub/two, not the one of the root's two.
C32_WitnessHosts ==
    /\ pc = "parsed"
    /\ fn_input[ConfigPath].lines = << IncludeLine(P_sub_one) >>
    /\ fn_input[SubOnePath].lines = << IncludeLine(P_tilde_two), IncludeLine(P_two) >>
    /\ ssh_hosts = Ok(<< << "s" >>, << "t" >> >>)

\* ------------------------------------------------------------------ C36

\* The Match flag of the call that is k-th from the outermost.
FlagOf(stack, k) == stack[Len(stack) - k + 1].in_match_block

\* C36: a call of parse_file starts with the Match flag cleared, and no line
\* read in an included file, nor its return, changes the flag of a file that
\* is waiting for it.
C36_MatchFlagPerFile ==
    /\ [](Parsing =>
            \A i \in 1..Len(fn_output.stack) :
                fn_output.stack[i].line = 1 => ~fn_output.stack[i].in_match_block)
    /\ [][(Parsing /\ Parsing') =>
            \A k \in 1..(Len(fn_output.stack) - 1) :
                /\ Len(fn_output.stack') >= k
                /\ FlagOf(fn_output.stack', k) = FlagOf(fn_output.stack, k)]_vars

\* sub/one has ended with its Match flag set and the root goes on with its own
\* flag cleared.
C36_Witness ==
    /\ pc = "parse_file"
    /\ fn_input[SubOnePath].lines = << L_Host_o, L_Match_all >>
    /\ fn_input[ConfigPath].lines = << IncludeLine(P_sub_one), IncludeLine(P_two) >>
    /\ Len(fn_output.stack) = 1
    /\ fn_output.stack[1].line = 2
    /\ ~fn_output.stack[1].in_match_block
    /\ fn_output.hosts = << << "o" >> >>

\* The Include that follows in the root is processed.
C36_WitnessProcessed ==
    /\ pc = "parsed"
    /\ fn_input[SubOnePath].lines = << L_Host_o, L_Match_all >>
    /\ fn_input[ConfigPath].lines = << IncludeLine(P_sub_one), IncludeLine(P_two) >>
    /\ ssh_hosts = Ok(<< << "o" >>, << "r" >> >>)

\* ------------------------------------------------------------------ C33

\* A redraw: picker_draw has drawn the frame.
Redraw == pc = "picker_loop" /\ pc' = "picker_poll"

\* The render row of the item at an index of the filtered list.
RowOf(index) ==
    render_row_of(picker_hosts, filtered, index, show_headers_of(picker_hosts, filtered))

\* C33, as stated: on each redraw the offset becomes the selection's row when
\* the row is below it, row + 1 - visible_height when the row is at or beyond
\* offset + visible_height, and is unchanged otherwise (visible_height is the
\* terminal height minus 2).
C33_ScrollAdjust ==
    [][Redraw =>
          LET row == RowOf(selected')
              visible_height == term_height' - 2
          IN  scroll_offset' =
                  IF row < scroll_offset THEN row
                  ELSE IF row >= scroll_offset + visible_height
                       THEN row + 1 - visible_height
                  ELSE scroll_offset]_vars

\* C33, amended: the same whenever at least one row is visible; with no row
\* visible the offset becomes the row when the row is below it and is
\* unchanged otherwise.
C33_ScrollAdjustVisible ==
    [][Redraw =>
          LET row == RowOf(selected')
              visible_height == term_height' - 2
          IN  scroll_offset' =
                  IF row < scroll_offset THEN row
                  ELSE IF visible_height > 0 /\ row >= scroll_offset + visible_height
                       THEN row + 1 - visible_height
                  ELSE scroll_offset]_vars

\* The offset has advanced: the selection is on the last visible row.
C33_Witness ==
    /\ pc = "picker_poll"
    /\ term_height > 2
    /\ scroll_offset > 0
    /\ selected_render_row = scroll_offset + (term_height - 2) - 1

\* The selection is inside the window, not on its first or last row.
C33_WitnessInside ==
    /\ pc = "picker_poll"
    /\ scroll_offset < selected_render_row
    /\ selected_render_row < scroll_offset + (term_height - 2) - 1

\* No row is visible and the selection is below the offset.
C33_WitnessNoRow ==
    /\ pc = "picker_poll"
    /\ term_height = 2
    /\ scroll_offset < selected_render_row

\* ------------------------------------------------------------------ C34

\* The host carries one of the configured danger tags, letter case aside.
DangerTagged(h) ==
    \E i \in 1..Len(h.tags), j \in 1..Len(cfg.danger_tags) :
        to_lowercase(h.tags[i]) = to_lowercase(cfg.danger_tags[j])

\* The lines that answer y or yes.
AcceptingLines == { << "y", "\n" >>, << "Y", "E", "S", "\n" >>, << " ", "y", " ", "\n" >> }

\* C34: a client process exists for a host with a danger tag only when --yes
\* was given or the prompt was answered with y or yes; after any other answer
\* no client process is started, nothing is recorded in the history and the
\* process ends.
C34_DangerConfirmed ==
    IF IsSome(stdin)
    THEN /\ ~yes
         /\ DangerTagged(host)
         /\ Unwrap(stdin) \notin AcceptingLines =>
                /\ pc = "exited"
                /\ spawned = << >>
                /\ running = 0
                /\ history_db = << >>
    ELSE (spawned # << >> /\ ~yes) => ~DangerTagged(host)

\* The prompt was answered YES and the client runs.
C34_Witness ==
    /\ DangerTagged(host) /\ ~yes
    /\ stdin = Some(<< "Y", "E", "S", "\n" >>)
    /\ spawned # << >> /\ running = 1

\* The prompt was answered with an empty line: no client, no history entry.
C34_WitnessDeclined ==
    /\ DangerTagged(host) /\ ~yes
    /\ stdin = Some(<< "\n" >>)
    /\ pc = "exited" /\ exit_status = Some(0)
    /\ spawned = << >> /\ history_db = << >>

\* --yes: the client runs and no line was read.
C34_WitnessYes ==
    /\ DangerTagged(host) /\ yes
    /\ stdin = None
    /\ spawned # << >>

\* ------------------------------------------------------------------ C35

\* The aliases of the list main resolves in this step.
ResolvedAliases(listed) ==
    { unwrap_or_default(listed)[i].alias : i \in 1..Len(unwrap_or_default(listed)) }

\* One string occurs in the other.
IsSubstring(needle, hay) ==
    \E i \in 1..(Len(hay) - Len(needle) + 1) : SubSeq(hay, i, i + Len(needle) - 1) = needle

\* C35: with one bare argument, main connects to the host at once, the picker
\* left alone, exactly when a resolved alias equals the argument and no other
\* resolved alias contains it; in every other case it opens the picker with
\* the argument as the initial filter, which a picker that starts takes as its
\* query.
C35_BareArgument ==
    /\ [][(pc = "main" /\ invocation.kind = "bare") =>
            LET arg == invocation.arg
                aliases == ResolvedAliases(all_hosts')
            IN  IF arg \in aliases /\ \A b \in aliases \ {arg} : ~IsSubstring(arg, b)
                THEN /\ pc' = "connect_to_host"
                     /\ host'.alias = arg
                     /\ UNCHANGED pickVars
                ELSE /\ pc' = "run_picker"
                     /\ initial_filter' = Some(arg)]_vars
    /\ [][(pc = "run_picker" /\ pc' = "picker_loop" /\ invocation.kind = "bare") =>
            search' = invocation.arg]_vars

\* `p` is the only alias: connected to at once.
C35_Witness ==
    /\ pc = "connect_to_host"
    /\ invocation.kind = "bare" /\ invocation.arg = << "p" >>
    /\ ResolvedAliases(all_hosts) = { << "p" >> }
    /\ host.alias = << "p" >>
    /\ initial_filter = None /\ ~raw_mode

\* `p` is an alias and `pb` another: the picker, with p as the query.
C35_WitnessOtherMatch ==
    /\ pc = "picker_loop"
    /\ invocation.kind = "bare" /\ invocation.arg = << "p" >>
    /\ { << "p" >>, S_pb } \subseteq ResolvedAliases(all_hosts)
    /\ search = << "p" >>

\* `p` is no alias: the picker, with p as the query.
C35_WitnessNoExact ==
    /\ pc = "picker_loop"
    /\ invocation.kind = "bare" /\ invocation.arg = << "p" >>
    /\ << "p" >> \notin ResolvedAliases(all_hosts)
    /\ search = << "p" >>

\* ------------------------------------------------------------------ C37

\* The token after the first occurrence of the flag is one the target scan
\* skips as the value of a flag, and so is not the target.
SkippedAsValue(args, flag) ==
    LET at == FirstIndexOf(args, flag) + 1
    IN  /\ IsValueAt(args, at)
        /\ Positionals(args) # {} => FirstPositional(args) # at

\* C37: the token whose value extract_port returns, and the one
\* extract_identity_file returns, is a token the target scan skips as the value
\* of a flag: no token is returned both as the port or identity file and as
\* the target.
C37_ConsistentScans ==
    IsSome(fn_output.extracted) =>
        /\ IsSome(Unwrap(fn_output.extracted).port) => SkippedAsValue(fn_input.args, S_p)
        /\ IsSome(Unwrap(fn_output.extracted).identity_file) =>
              SkippedAsValue(fn_input.args, S_i)

\* -o -p 22: -p is the value of -o for the target scan, and 22 is both the port
\* and the target.
C37_PortIsTarget ==
    /\ IsSome(fn_output.extracted)
    /\ fn_input.args = << S_o, S_p, T_22 >>
    /\ Unwrap(fn_output.extracted).port = Some(22)
    /\ Unwrap(fn_output.extracted).target_full = Some(T_22)

\* -p 22 user@host: the port token is skipped and the target follows.
C37_PortSkipped ==
    /\ IsSome(fn_output.extracted)
    /\ fn_input.args = << S_p, T_22, T_user_at_host >>
    /\ Unwrap(fn_output.extracted).port = Some(22)
    /\ Unwrap(fn_output.extracted).target_full = Some(T_user_at_host)

\* What holds: the scans agree whenever the first -p and the first -i are not
\* themselves the value of a flag before them.
C37_FlagNotAValue ==
    IsSome(fn_output.extracted) =>
        /\ (/\ IsSome(Unwrap(fn_output.extracted).port)
            /\ ~IsValueAt(fn_input.args, FirstIndexOf(fn_input.args, S_p)))
              => SkippedAsValue(fn_input.args, S_p)
        /\ (/\ IsSome(Unwrap(fn_output.extracted).identity_file)
            /\ ~IsValueAt(fn_input.args, FirstIndexOf(fn_input.args, S_i)))
              => SkippedAsValue(fn_input.args, S_i)

\* ------------------------------------------------------------------ connect_passthrough

\* str::split_once('@'), its first half: what stands before the first '@'.
before_first_at(tok) == SubSeq(tok, 1, Len(tok) - Len(after_first_at(tok)) - 1)

\* maybe_prompt_save, lines 288-293: a host of that hostname (or alias) and
\* user, or of the alias user@hostname, is known.
exact_known(hs, tgt) ==
    \E i \in 1..Len(hs) :
        \/ /\ (hs[i].alias = after_first_at(tgt) \/ hs[i].hostname = Some(after_first_at(tgt)))
           /\ hs[i].user = Some(before_first_at(tgt))
        \/ hs[i].alias = tgt

\* maybe_prompt_save, lines 285-287.
host_known(hs, tgt) ==
    \E i \in 1..Len(hs) :
        hs[i].alias = after_first_at(tgt) \/ hs[i].hostname = Some(after_first_at(tgt))

\* hosts_toml::add_host: the file with one entry more; an error when the file
\* cannot be loaded or holds the name already.
add_host(file, name, entry) ==
    IF ~load_hosts_toml(file).ok THEN Err
    ELSE IF name \in DOMAIN load_hosts_toml(file).val THEN Err
    ELSE Ok([state |-> "ok",
             hosts |-> [a \in DOMAIN load_hosts_toml(file).val \cup {name} |->
                           IF a = name THEN entry ELSE load_hosts_toml(file).val[a]]])

\* What the user can type at the two prompts of maybe_prompt_save: a name (none
\* is end of input or a skipped prompt) and the tags.
SaveNames == { None, Some(<< >>), Some(<< "s" >>) }
SaveTags == { << >>, << S_prod >> }

\* connect_passthrough, line 129: maybe_prompt_save. A user@host target that
\* is not known is offered to be saved in hosts.toml; every failure is dropped.
maybe_prompt_save ==
    /\ pc = "connect_passthrough"
    /\ \E config_dir_ok \in BOOLEAN, name \in SaveNames, tags \in SaveTags :
        LET tgt == extract_target_host_full(fn_input.args)
            hs == unwrap_or_default(list_all_hosts(ssh_hosts, config_dir_ok, hosts_toml))
            prompted == IsSome(tgt) /\ IsIn(Unwrap(tgt), "@") /\ ~exact_known(hs, Unwrap(tgt))
            alias == IF name = Some(<< >>) /\ ~host_known(hs, Unwrap(tgt))
                     THEN after_first_at(Unwrap(tgt))
                     ELSE unwrap_or(name, << >>)
            entry == HostEntry(after_first_at(Unwrap(tgt)), Some(before_first_at(Unwrap(tgt))),
                               extract_port(fn_input.args),
                               extract_identity_file(fn_input.args), tags)
        IN  IF ~prompted
            THEN /\ config_dir_ok /\ name = None /\ tags = << >>
                 /\ UNCHANGED << stderr, hosts_toml >>
            ELSE /\ stderr' = Append(stderr, "save_prompt")
                 /\ hosts_toml' =
                        IF alias # << >> /\ add_host(hosts_toml, alias, entry).ok
                        THEN add_host(hosts_toml, alias, entry).val
                        ELSE hosts_toml
    /\ pc' = "prod_warning"
    /\ UNCHANGED << exit_status, exit_by, history_db, audit, connVars, ssh_hosts,
                    all_hosts, pickVars, fnVars >>

\* connect_passthrough, lines 135-137: Iterator::find, the first host whose
\* alias or hostname is the target.
find_target_host(hs, tgt) ==
    LET at == { i \in 1..Len(hs) : hs[i].alias = tgt \/ hs[i].hostname = Some(tgt) }
    IN  IF at = {} THEN None ELSE Some(hs[CHOOSE i \in at : \A j \in at : i <= j])

\* connect_passthrough, lines 131-151: the prod warning for the host found for
\* the target, the keepalive options, the history record (dropped on failure),
\* up to the call of run_ssh.
connect_passthrough ==
    /\ pc = "prod_warning"
    /\ \E config_dir_ok \in BOOLEAN, line \in StdinLines :
        LET tgt == extract_target_host(fn_input.args)
            looked_up == ~yes /\ IsSome(tgt)
            listed == list_all_hosts(ssh_hosts, config_dir_ok, hosts_toml)
            found == IF looked_up
                     THEN find_target_host(unwrap_or_default(listed), Unwrap(tgt))
                     ELSE None
            shown == IsSome(found) /\ prod_warning_shown(Unwrap(found), yes, cfg.danger_tags)
        IN  /\ (~looked_up => config_dir_ok)
            /\ (~shown => line = << >>)
            /\ all_hosts' = IF looked_up THEN listed ELSE all_hosts
            /\ stderr' = IF shown THEN Append(stderr, "prod_warning") ELSE stderr
            /\ stdin' = IF shown THEN Some(line) ELSE stdin
            /\ IF shown /\ ~maybe_prod_warning(Unwrap(found), yes, cfg.danger_tags, line)
               THEN /\ Exit(0, "main_ok")
                    /\ UNCHANGED << history_db, ssh_args, target >>
               ELSE /\ ssh_args' = inject_keepalive(fn_input.args, cfg.keepalive_interval)
                    /\ \E now \in Timestamps :
                          history_db' \in
                              IF IsSome(extract_target_host(ssh_args'))
                              THEN { record_connection(history_db,
                                        Unwrap(extract_target_host(ssh_args')), now),
                                     history_db }
                              ELSE { history_db }
                    /\ target' = unwrap_or(extract_target_host_full(fn_input.args), << >>)
                    /\ pc' = "run_ssh"
                    /\ UNCHANGED << exit_status, exit_by >>
    /\ UNCHANGED << audit, host, yes, no_reconnect, cfg, mode, client,
                    attempt, spawned, delays, running >>
    /\ UNCHANGED << ssh_hosts, hosts_toml, pickVars, fnVars >>

\* connect_passthrough, lines 152-154, once ssh::run has returned the exit
\* code: the session is logged under the target and the process exits.
connect_passthrough_done ==
    /\ pc = "ssh_wait"
    /\ UNCHANGED fnVars
    /\ running' = running - 1
    /\ LET exit_code == unwrap_or(status_code(client[Len(spawned)]), 1)
       IN  /\ audit' \in {log_session(audit, target, target, exit_code), audit}
           /\ Exit(exit_code, "connect_passthrough")
    /\ UNCHANGED << stderr, history_db, host, yes, no_reconnect, stdin, cfg, ssh_args,
                    target, mode, client, attempt, spawned, delays >>
    /\ UNCHANGED << resVars, pickVars >>

\* ------------------------------------------------------------------ SpecPassthrough

\* hosts.toml: the host a and the host db share the hostname h, and db alone
\* carries a danger tag; or db alone.
PassStore ==
    [a \in {S_a, S_db} |->
        IF a = S_a THEN HostEntry(T_h, Some(T_u), None, None, << >>)
        ELSE HostEntry(T_h, None, None, None, << << "P", "r", "o", "d" >> >>)]
PassTomlFiles ==
    { [state |-> "ok", hosts |-> PassStore],
      [state |-> "ok", hosts |-> [a \in {S_db} |-> PassStore[a]]] }

\* The command lines passed through: a hostname, aliases, user@host targets
\* known and unknown, and no target at all.
PassArgs ==
    { << T_v, T_h >>, << T_v, S_db >>, << T_v, S_a >>, << T_v >>,
      << T_u \o << "@" >> \o T_h >>, << << "x", "@" >> \o T_h >>,
      << << "x", "@", "n" >>, S_p, T_22 >> }

InitPassthrough ==
    /\ pc = "connect_passthrough"
    /\ exit_status = None
    /\ exit_by = ""
    /\ stderr = << >>
    /\ history_db = << >>
    /\ audit = << >>
    /\ host = NoHost
    /\ yes \in BOOLEAN
    /\ no_reconnect \in BOOLEAN
    /\ stdin = None
    /\ cfg = [reconnect |-> TRUE, reconnect_retries |-> 1,
              keepalive_interval |-> default_keepalive,
              danger_tags |-> default_danger_tags]
    /\ ssh_args = << >>
    /\ target = << >>
    /\ mode = ""
    /\ client = MainScript
    /\ attempt = 0
    /\ spawned = << >>
    /\ delays = 0
    /\ running = 0
    /\ ssh_hosts = Ok(<< S_web >>)
    /\ hosts_toml \in PassTomlFiles
    /\ all_hosts = Ok(<< >>)
    /\ invocation = NoInvocation
    /\ PickerIdle
    /\ fn_input \in [args : PassArgs]
    /\ fn_output = << >>

NextPassthrough ==
    \/ maybe_prompt_save
    \/ connect_passthrough
    \/ run_ssh
    \/ run_with_reconnect_spawn
    \/ run_with_reconnect_status
    \/ run_with_reconnect_sleep
    \/ ssh_run_spawn
    \/ connect_passthrough_done

SpecPassthrough == InitPassthrough /\ [][NextPassthrough]_vars

\* ------------------------------------------------------------------ C38

\* The target of the command line: the host part of its first positional token.
HasTarget == Positionals(fn_input.args) # {}
PassTarget == HostPart(fn_input.args[FirstPositional(fn_input.args)])

\* The resolved hosts whose alias or hostname is the target.
TargetHosts ==
    { h \in Range(unwrap_or_default(all_hosts)) :
        h.alias = PassTarget \/ h.hostname = Some(PassTarget) }

\* The prompt was shown and answered with y or yes.
PromptAccepted ==
    /\ IsIn(stderr, "prod_warning")
    /\ IsSome(stdin) /\ Unwrap(stdin) \in AcceptingLines

\* C38: in pass-through mode without --yes, when some resolved host whose
\* alias or hostname is the target carries a danger tag, a client process
\* exists only after the prompt was shown and accepted.
C38_PassthroughWarned ==
    (/\ ~yes /\ HasTarget
     /\ spawned # << >>
     /\ \E h \in TargetHosts : DangerTagged(h))
    => PromptAccepted

\* `-v h` with the hosts a (no tag) and db (tagged Prod) of hostname h: the
\* client runs and no prompt was shown.
C38_NotWarned ==
    /\ ~yes
    /\ fn_input.args = << T_v, T_h >>
    /\ { h.alias : h \in TargetHosts } = { S_a, S_db }
    /\ spawned # << >> /\ running = 1
    /\ ~IsIn(stderr, "prod_warning") /\ stdin = None

\* `-v db`: the prompt was accepted and the client runs.
C38_Warned ==
    /\ ~yes
    /\ fn_input.args = << T_v, S_db >>
    /\ PromptAccepted
    /\ spawned # << >> /\ running = 1

\* What holds: the prompt is shown, and has to be accepted, when the first
\* resolved host (in alias order) whose alias or hostname is the target carries
\* a danger tag.
C38_FirstTargetHost ==
    (/\ ~yes /\ HasTarget
     /\ spawned # << >>
     /\ TargetHosts # {}
     /\ DangerTagged(CHOOSE h \in TargetHosts :
                        \A g \in TargetHosts : str_cmp(h.alias, g.alias) <= 0))
    => PromptAccepted

\* ------------------------------------------------------------------ C39

\* draw_host_list has been called on a list with kept items.
Drawn == pc = "picker_fn" /\ IsSome(fn_output.frame) /\ Unwrap(fn_output.filtered) # << >>
DrawnFrame == Unwrap(fn_output.frame)

\* render_row_of for the selection of the frame.
FrameRow ==
    render_row_of(Unwrap(fn_output.picker_hosts), Unwrap(fn_output.filtered),
                  DrawnFrame.selected,
                  show_headers_of(Unwrap(fn_output.picker_hosts), Unwrap(fn_output.filtered)))

\* The rows (from 0) at which the selected item stands among the rows built.
SelectedRows ==
    { r \in 0..(Len(DrawnFrame.drawn.items) - 1) :
        /\ DrawnFrame.drawn.items[r + 1].kind = "item"
        /\ DrawnFrame.drawn.items[r + 1].highlighted }

\* The rows (from 0) of the list handed to the widget.
RenderedRows ==
    { r \in 0..(Len(DrawnFrame.drawn.items) - 1) :
        /\ DrawnFrame.scroll_offset <= r
        /\ r < DrawnFrame.scroll_offset + Len(DrawnFrame.drawn.visible)
        /\ DrawnFrame.drawn.visible[r - DrawnFrame.scroll_offset + 1] = DrawnFrame.drawn.items[r + 1] }

\* C39: the row render_row_of computes is the one row at which draw_host_list
\* places the selected item among its rows, headers included; the rows it
\* renders are those of [offset, offset + visible_height) that exist; so the
\* selected item is rendered whenever offset <= row < offset + visible_height.
C39_SelectedRowRendered ==
    Drawn =>
        LET visible_height == DrawnFrame.area_height - 1
            window == { r \in 0..(Len(DrawnFrame.drawn.items) - 1) :
                          DrawnFrame.scroll_offset <= r /\ r < DrawnFrame.scroll_offset + visible_height }
        IN  /\ SelectedRows = { FrameRow }
            /\ DrawnFrame.drawn.items[FrameRow + 1].text =
                   Unwrap(fn_output.picker_hosts)[Unwrap(fn_output.filtered)[DrawnFrame.selected + 1]]
                       .host.alias
            /\ RenderedRows = window
            /\ Len(DrawnFrame.drawn.visible) = Cardinality(window)
            /\ (FrameRow \in window => FrameRow \in RenderedRows)

\* The selection stands below two headers, the window is scrolled and holds it.
C39_Witness ==
    /\ Drawn
    /\ DrawnFrame.selected > 0
    /\ FrameRow >= DrawnFrame.selected + 2
    /\ DrawnFrame.scroll_offset > 0
    /\ FrameRow \in RenderedRows
    /\ Len(DrawnFrame.drawn.visible) < Len(DrawnFrame.drawn.items) - DrawnFrame.scroll_offset

\* The selection is outside the window and is not rendered.
C39_WitnessOutside ==
    /\ Drawn
    /\ FrameRow >= DrawnFrame.scroll_offset + (DrawnFrame.area_height - 1)
    /\ FrameRow \notin RenderedRows
    /\ DrawnFrame.drawn.visible # << >>

\* No header is shown: the row is the index.
C39_WitnessNoHeaders ==
    /\ Drawn
    /\ DrawnFrame.selected > 0
    /\ FrameRow = DrawnFrame.selected
    /\ FrameRow \in RenderedRows

====
